---- MODULE Spec2Model ----
(***************************************************************************)
(* Verification model of the chart data pipelines of the repository:      *)
(*   - displayHistogram        (Homework2/ashih/main.js)                   *)
(*   - createRidgelinePlot     (Homework2/alfranzen/ridgelinePlot.js)      *)
(*   - createStackedBarChart   (Homework2/alfranzen/stackedBarChart.js)    *)
(*   - displaySankey           (Homework2/ashih/main.js)                   *)
(*   - debounce, renderPlots   (Homework2/alfranzen/main.js)               *)
(*   - the axis brushes        (Homework3/fwemguangzhu/pokemon-dashboard.js)*)
(*   - the scatter type filter (Homework3/fwemguangzhu/pokemon-dashboard.js)*)
(*   - createChordDiagram and the resize handler of the student dashboard *)
(* JavaScript numbers are modelled as integers, plus the two non-finite   *)
(* values the code can produce (NaN, -Infinity).  Fractions (tick values, *)
(* kernel densities) are exact rationals <<numerator, denominator>>.      *)
(***************************************************************************)
EXTENDS Integers, Sequences, FiniteSets, TLC

VARIABLES
    salaryHistogramData,  \* displayDashboard: salaryData.map(+salary_in_usd)
    histPc,               \* "loaded" | "drawn"
    bins,                 \* result of histogram(data) in displayHistogram
    pokemonData,          \* the records of pokemon.csv after type conversion
    ridgePc,              \* "loaded" | "returned" | "threw"
    ridgeText,            \* the message createRidgelinePlot put in the svg
    ridges,               \* generation key -> what its g.ridge received
    consoleWarn,          \* generations warned about by the ridge callback
    stackPc,              \* "loaded" | "returned"
    stackHtml,            \* what createStackedBarChart left in its container
    secondaryTypes,       \* the stack keys, in stacking order
    countsByType,         \* the rollup: one entry per Type_1, insertion order
    sortedCountsArray,    \* the entries sorted by total, descending
    stackWarn,            \* leaves reported as "Unexpected secondary type"
    salaryData,           \* displayDashboard: the records of ds_salaries.csv
    parallelData,         \* the argument of displaySankey
    sankeyPc,             \* "loaded" | "called" | "drawn"
    nodes,                \* displaySankey: the ids of nodes, in order
    links,                \* displaySankey: links, in order of the push calls
    loadState,            \* d3.csv("pokemon.csv"): "fetching" | "loaded" | "failed"
    resizeListener,       \* whether the resize listener is registered
    clock,                \* the time, in milliseconds
    timeout,              \* debounce: "undefined" | "null" | a timer id
    timers,               \* the pending setTimeout callbacks [id, due, args]
    resizeCount,          \* the resize events handled so far
    lastResizeTime,       \* the time of the last resize event
    bursts,               \* the resize events that found no timer pending
    funcCalls,            \* the invocations of the debounced function
    lastFunc,             \* the last invocation [time, args, idle]
    containers,           \* chart -> [svgs, error, note]: content of its div
    lastRender,           \* chart -> how its block of renderPlots ended
    uncaught,             \* an exception left renderPlots
    bodyFatal,            \* document.body replaced by the fatal error
    brushData,            \* pokemon-dashboard: sampleData of the parallel plot
    activeBrushes,        \* dimension -> <<min, max>> of its brush
    brushSelection,       \* dimension -> the selection of its brush element
    lineStyle,            \* line -> [opacity, width]
    lastBrushEvent,       \* [type, dim] of the last brush callback
    clearedBrushes,       \* entries of activeBrushes dropped by the last reset
    csvRows,              \* the rows of pokemon.csv as d3.csv parsed them
    renderArg,            \* the argument of the last call of renderPlots
    scatterData,          \* pokemon-dashboard: data of createScatterPlot
    selected,             \* the selected options of the type dropdown
    points,               \* the circle.point nodes: [datum, exiting]
    lastChange,           \* the selected options when the last change fired
    scatterPc,            \* "drawn" | "changed"
    df,                   \* part_001: the records of student-mat.csv
    chordMatrix,          \* createChordDiagram: the matrix given to d3.chord
    studentPc,            \* "drawn" | "resized" | "redrawn"
    resizeTimeout,        \* part_001 debounce: "undefined" | a timer id
    resizeTimers,         \* the pending timers of handleResize [id, due]
    resizeEvents,         \* the resize events handleResize has seen
    redraws,              \* the runs of the debounced redraw
    lastRedraw            \* [time, latest, df] of the last redraw

histVars == <<salaryHistogramData, histPc, bins>>

ridgeVars == <<pokemonData, ridgePc, ridgeText, ridges, consoleWarn>>

stackVars == <<stackPc, stackHtml, secondaryTypes, countsByType,
               sortedCountsArray, stackWarn>>

sankeyVars == <<salaryData, parallelData, sankeyPc, nodes, links>>

debounceVars == <<clock, timeout, timers, resizeCount, lastResizeTime, bursts,
                  funcCalls, lastFunc>>

renderVars == <<containers, lastRender, uncaught>>

loadVars == <<csvRows, renderArg>>

appVars == <<loadState, resizeListener, bodyFatal, debounceVars, renderVars,
             loadVars>>

brushVars == <<brushData, activeBrushes, brushSelection, lineStyle,
               lastBrushEvent, clearedBrushes>>

scatterVars == <<scatterData, selected, points, lastChange, scatterPc>>

studentVars == <<df, chordMatrix, studentPc, resizeTimeout, resizeTimers,
                 resizeEvents, redraws, lastRedraw>>

vars == <<salaryHistogramData, histPc, bins,
          pokemonData, ridgePc, ridgeText, ridges, consoleWarn,
          stackPc, stackHtml, secondaryTypes, countsByType,
          sortedCountsArray, stackWarn,
          sankeyVars, appVars, brushVars, scatterVars, studentVars>>

\* the components that a specification of another component leaves alone
SankeyIdle ==
    /\ salaryData = <<>>
    /\ parallelData = <<>>
    /\ sankeyPc = "idle"
    /\ nodes = <<>>
    /\ links = <<>>

AppIdle ==
    /\ loadState = "idle"
    /\ resizeListener = FALSE
    /\ bodyFatal = FALSE
    /\ clock = 0
    /\ timeout = "undefined"
    /\ timers = {}
    /\ resizeCount = 0
    /\ lastResizeTime = 0
    /\ bursts = 0
    /\ funcCalls = 0
    /\ lastFunc = <<>>
    /\ containers = <<>>
    /\ lastRender = <<>>
    /\ uncaught = FALSE
    /\ csvRows = <<>>
    /\ renderArg = <<>>

BrushIdle ==
    /\ brushData = <<>>
    /\ activeBrushes = <<>>
    /\ brushSelection = <<>>
    /\ lineStyle = <<>>
    /\ lastBrushEvent = <<>>
    /\ clearedBrushes = 0

ScatterIdle ==
    /\ scatterData = <<>>
    /\ selected = {}
    /\ points = <<>>
    /\ lastChange = {}
    /\ scatterPc = "idle"

StudentIdle ==
    /\ df = <<>>
    /\ chordMatrix = <<>>
    /\ studentPc = "idle"
    /\ resizeTimeout = "undefined"
    /\ resizeTimers = {}
    /\ resizeEvents = 0
    /\ redraws = 0
    /\ lastRedraw = <<>>

-----------------------------------------------------------------------------
(* Bounds of the model *)

MaxSalaryRecords == 3
MaxPokemon == 3
MaxStackRecords == 3

-----------------------------------------------------------------------------
(* JavaScript numbers *)

\* NaN: the value of +field for a non-numeric CSV field
NaN == -777777
\* -Infinity: the value of Math.max() over an empty argument list
NegInf == -888888

IsFinite(v) == v # NaN /\ v # NegInf

\* a <= b as JavaScript evaluates it (every comparison with NaN is false)
Le(a, b) ==
    IF a = NaN \/ b = NaN THEN FALSE
    ELSE IF a = NegInf THEN TRUE
    ELSE IF b = NegInf THEN FALSE
    ELSE a <= b

\* a > b as JavaScript evaluates it
Gt(a, b) ==
    IF a = NaN \/ b = NaN THEN FALSE
    ELSE IF a = NegInf THEN FALSE
    ELSE IF b = NegInf THEN TRUE
    ELSE a > b

Abs(n) == IF n < 0 THEN -n ELSE n

\* Math.floor(a / b) and Math.ceil(a / b) for integers a and b > 0
FloorDiv(a, b) == a \div b
CeilDiv(a, b) == -((-a) \div b)

RECURSIVE Pow10(_)
Pow10(n) == IF n = 0 THEN 1 ELSE 10 * Pow10(n - 1)

RECURSIVE SeqSum(_)
SeqSum(s) == IF s = <<>> THEN 0 ELSE Head(s) + SeqSum(Tail(s))

Range(s) == {s[i] : i \in 1..Len(s)}

\* Math.max(...data)
RECURSIVE MathMax(_)
MathMax(s) ==
    IF s = <<>> THEN NegInf
    ELSE LET h == Head(s)
             r == MathMax(Tail(s))
         IN IF h = NaN \/ r = NaN THEN NaN
            ELSE IF r = NegInf THEN h
            ELSE IF h > r THEN h ELSE r

-----------------------------------------------------------------------------
(* d3.ticks / d3.tickIncrement as called through scale.ticks(count) *)

\* floor(log10(span / count)) for span >= count > 0
RECURSIVE PowUp(_, _, _)
PowUp(span, count, p) ==
    IF Pow10(p + 1) * count <= span THEN PowUp(span, count, p + 1) ELSE p

\* -floor(log10(span / count)) for 0 < span < count
RECURSIVE PowDown(_, _, _)
PowDown(span, count, q) ==
    IF count <= span * Pow10(q) THEN q ELSE PowDown(span, count, q + 1)

\* the factor 10, 5, 2 or 1 chosen from error = en / ed against
\* sqrt(50), sqrt(10) and sqrt(2)
TickFactor(en, ed) ==
    IF en * en >= 50 * ed * ed THEN 10
    ELSE IF en * en >= 10 * ed * ed THEN 5
    ELSE IF en * en >= 2 * ed * ed THEN 2
    ELSE 1

\* tickIncrement(start, stop, count) for start < stop: the step as the
\* fraction n / d  (d = 1 for a step >= 1, n = 1 for a step < 1)
tickIncrement(start, stop, count) ==
    LET span == stop - start
    IN IF span >= count
       THEN LET p == PowUp(span, count, 0)
                f == TickFactor(span, count * Pow10(p))
            IN [n |-> f * Pow10(p), d |-> 1]
       ELSE LET q == PowDown(span, count, 1)
                f == TickFactor(span * Pow10(q), count)
            IN [n |-> 1, d |-> Pow10(q) \div f]

Reverse(s) == [i \in 1..Len(s) |-> s[Len(s) + 1 - i]]

\* d3.ticks(start, stop, count): the tick values are nums[i] / den
ticks(start, stop, count) ==
    IF ~IsFinite(start) \/ ~IsFinite(stop) THEN [den |-> 1, nums |-> <<>>]
    ELSE IF start = stop THEN [den |-> 1, nums |-> <<start>>]
    ELSE LET lo == IF stop < start THEN stop ELSE start
             hi == IF stop < start THEN start ELSE stop
             step == tickIncrement(lo, hi, count)
             s == IF step.d = 1 THEN CeilDiv(lo, step.n) ELSE lo * step.d
             e == IF step.d = 1 THEN FloorDiv(hi, step.n) ELSE hi * step.d
             asc == [i \in 1..(e - s + 1) |->
                        IF step.d = 1 THEN (s + i - 1) * step.n ELSE s + i - 1]
         IN [den |-> step.d,
             nums |-> IF stop < start THEN Reverse(asc) ELSE asc]

-----------------------------------------------------------------------------
(* displayHistogram: d3.histogram().domain([0, maxBinValue])               *)
(*                                 .thresholds(x.ticks(HISTOGRAM_NUM_BINS)) *)

HISTOGRAM_NUM_BINS == 30

\* Math.ceil(maxValue / HISTOGRAM_NUM_BINS) * (HISTOGRAM_NUM_BINS + 1)
maxBinValue(data) ==
    LET maxValue == MathMax(data)
    IN IF IsFinite(maxValue)
       THEN CeilDiv(maxValue, HISTOGRAM_NUM_BINS) * (HISTOGRAM_NUM_BINS + 1)
       ELSE maxValue

\* a finite bound scaled to the common denominator of the thresholds
Scaled(v, den) == IF IsFinite(v) THEN v * den ELSE v

\* variant of ShiftLow that keeps the thresholds at or below the domain start
ShiftLowKeepsAll(tz, x0) == tz

\* while (tz[0] <= x0) tz.shift()
RECURSIVE ShiftLow(_, _)
ShiftLow(tz, x0) ==
    IF tz # <<>> /\ Le(Head(tz), x0) THEN ShiftLow(Tail(tz), x0) ELSE tz

\* while (tz[m - 1] > x1) tz.pop()
RECURSIVE PopHigh(_, _)
PopHigh(tz, x1) ==
    IF tz # <<>> /\ Gt(tz[Len(tz)], x1)
    THEN PopHigh(SubSeq(tz, 1, Len(tz) - 1), x1)
    ELSE tz

\* the thresholds of the histogram, scaled by den, after removing those
\* outside the domain
thresholds(data) ==
    LET x1 == maxBinValue(data)
        t == ticks(0, x1, HISTOGRAM_NUM_BINS)
    IN [den |-> t.den,
        tz |-> PopHigh(ShiftLow(t.nums, 0), Scaled(x1, t.den))]

\* bisectRight(tz, x, 0, m): the number of thresholds <= x
bisect(tz, x) == Cardinality({i \in 1..Len(tz) : tz[i] <= x})

\* variant of binIndex whose domain test excludes the upper end (x < x1)
binIndexOpenEnd(th, x1, x) ==
    IF Le(0, x) /\ Le(x, x1) /\ x # x1 THEN bisect(th.tz, x * th.den) ELSE -1

\* the index (from 0) of the bin that receives x, or -1 when x is ignored:
\* if (x0 <= x && x <= x1) bins[bisect(tz, x, 0, m)].push(data[i])
binIndex(th, x1, x) ==
    IF Le(0, x) /\ Le(x, x1) THEN bisect(th.tz, x * th.den) ELSE -1

SelectIdx(data, th, x1, i) ==
    SelectSeq(data, LAMBDA x : binIndex(th, x1, x) = i)

\* histogram(data): bins in array order; a bin spans x0/den .. x1/den and
\* holds the data values pushed into it
histogram(data) ==
    LET x1 == maxBinValue(data)
        th == thresholds(data)
        m == Len(th.tz)
    IN [den |-> th.den,
        bins |-> [i \in 1..(m + 1) |->
                    [x0 |-> IF i > 1 THEN th.tz[i - 1] ELSE 0,
                     x1 |-> IF i <= m THEN th.tz[i] ELSE Scaled(x1, th.den),
                     items |-> SelectIdx(data, th, x1, i - 1)]]]

-----------------------------------------------------------------------------
(* The salary dashboard: load, then displayHistogram *)

\* salary_in_usd values after unary plus (thousands of USD)
SalaryValues == {NaN, -10, 0, 15, 30, 100}

RECURSIVE SeqsUpTo(_, _)
SeqsUpTo(S, n) ==
    IF n = 0 THEN {<<>>}
    ELSE LET shorter == SeqsUpTo(S, n - 1)
         IN shorter \cup {Append(s, x) : s \in {t \in shorter : Len(t) = n - 1}, x \in S}

NoBins == [den |-> 1, bins |-> <<>>]

RidgeIdle ==
    /\ pokemonData = <<>>
    /\ ridgePc = "idle"
    /\ ridgeText = "none"
    /\ ridges = <<>>
    /\ consoleWarn = {}

StackIdle ==
    /\ stackPc = "idle"
    /\ stackHtml = "none"
    /\ secondaryTypes = <<>>
    /\ countsByType = <<>>
    /\ sortedCountsArray = <<>>
    /\ stackWarn = <<>>

HistInit ==
    /\ SankeyIdle
    /\ AppIdle
    /\ BrushIdle
    /\ ScatterIdle
    /\ StudentIdle
    /\ RidgeIdle
    /\ StackIdle
    /\ salaryHistogramData \in SeqsUpTo(SalaryValues, MaxSalaryRecords)
    /\ histPc = "loaded"
    /\ bins = NoBins

displayHistogram ==
    /\ histPc = "loaded"
    /\ bins' = histogram(salaryHistogramData)
    /\ histPc' = "drawn"
    /\ UNCHANGED <<salaryHistogramData, ridgeVars, stackVars,
                   sankeyVars, appVars, brushVars, scatterVars, studentVars>>

HistNext == displayHistogram

HistSpec == HistInit /\ [][HistNext]_vars

-----------------------------------------------------------------------------
(* Properties of the histogram *)

InHistDomain(v) == Le(0, v) /\ Le(v, maxBinValue(salaryHistogramData))

ValidHistDomain ==
    IsFinite(maxBinValue(salaryHistogramData)) /\ maxBinValue(salaryHistogramData) > 0

binCounts == [i \in 1..Len(bins.bins) |-> Len(bins.bins[i].items)]

\* C1: when every value of the sample lies in [0, maxBinValue], the counts
\* of all bins sum to the number of sample values.
HistTotalMass ==
    (histPc = "drawn"
       /\ \A k \in 1..Len(salaryHistogramData) : InHistDomain(salaryHistogramData[k]))
    => SeqSum(binCounts) = Len(salaryHistogramData)

\* a sample of several in-domain values, spread over more than one bin, has
\* been binned
HistTotalMassWitness ==
    /\ histPc = "drawn"
    /\ Len(salaryHistogramData) >= 2
    /\ \A k \in 1..Len(salaryHistogramData) : InHistDomain(salaryHistogramData[k])
    /\ Cardinality({i \in 1..Len(bins.bins) : bins.bins[i].items # <<>>}) >= 2

\* C2: the histogram has exactly HISTOGRAM_NUM_BINS bins and every bin has
\* the width maxBinValue / HISTOGRAM_NUM_BINS.
HistEqualWidth ==
    (histPc = "drawn" /\ ValidHistDomain)
    => /\ Len(bins.bins) = HISTOGRAM_NUM_BINS
       /\ \A i \in 1..Len(bins.bins) :
             (bins.bins[i].x1 - bins.bins[i].x0) * HISTOGRAM_NUM_BINS
                = maxBinValue(salaryHistogramData) * bins.den

\* C3: for a valid domain the bins come in ascending order of lower bound,
\* each bin's upper bound is the next bin's lower bound, no bin is inverted,
\* the first bin starts at 0 and the last ends at maxBinValue.
HistPartition ==
    (histPc = "drawn" /\ ValidHistDomain)
    => /\ Len(bins.bins) >= 1
       /\ bins.bins[1].x0 = 0
       /\ bins.bins[Len(bins.bins)].x1 = maxBinValue(salaryHistogramData) * bins.den
       /\ \A i \in 1..Len(bins.bins) : bins.bins[i].x0 <= bins.bins[i].x1
       /\ \A i \in 1..(Len(bins.bins) - 1) :
             /\ bins.bins[i].x1 = bins.bins[i + 1].x0
             /\ bins.bins[i].x0 < bins.bins[i + 1].x0

\* a valid domain has been cut into several bins
HistPartitionWitness ==
    histPc = "drawn" /\ ValidHistDomain /\ Len(bins.bins) >= 3

\* C4: every in-domain value v is held by the bin with index
\* floor(v / width), width = maxBinValue / HISTOGRAM_NUM_BINS, clamped to
\* the last bin.
ClaimedBinIndex(v) ==
    LET i == (v * HISTOGRAM_NUM_BINS) \div maxBinValue(salaryHistogramData)
    IN IF i > HISTOGRAM_NUM_BINS - 1 THEN HISTOGRAM_NUM_BINS - 1 ELSE i

HistBinMembership ==
    (histPc = "drawn" /\ ValidHistDomain)
    => \A k \in 1..Len(salaryHistogramData) :
          LET v == salaryHistogramData[k]
          IN InHistDomain(v)
             => /\ ClaimedBinIndex(v) + 1 <= Len(bins.bins)
                /\ v \in Range(bins.bins[ClaimedBinIndex(v) + 1].items)

\* C5: a negative or NaN salary is counted in no bin and every other value
\* is still counted.
HistOutOfDomainDropped ==
    histPc = "drawn"
    => /\ \A i \in 1..Len(bins.bins) : \A v \in Range(bins.bins[i].items) :
             v # NaN /\ v >= 0
       /\ SeqSum(binCounts)
             = Len(SelectSeq(salaryHistogramData, LAMBDA v : v # NaN /\ v >= 0))

-----------------------------------------------------------------------------
(* Exact fractions <<n, d>>, d > 0; RatNorm gives the lowest terms, in   *)
(* which equal fractions are equal tuples                                 *)

RECURSIVE GCD(_, _)
GCD(a, b) == IF b = 0 THEN a ELSE GCD(b, a % b)

RatNorm(n, d) ==
    IF n = 0 THEN <<0, 1>>
    ELSE LET g == GCD(Abs(n), d) IN <<n \div g, d \div g>>

RatInt(n) == <<n, 1>>
\* a + b over the least common denominator
RatAdd(a, b) ==
    LET g == GCD(a[2], b[2])
        l == (a[2] \div g) * b[2]
    IN <<a[1] * (l \div a[2]) + b[1] * (l \div b[2]), l>>
RatNeg(a) == <<-a[1], a[2]>>
RatSub(a, b) == RatAdd(a, RatNeg(b))
RatMul(a, b) == <<a[1] * b[1], a[2] * b[2]>>
\* a / k for an integer k > 0
RatDivInt(a, k) == <<a[1], a[2] * k>>
RatAbsLeOne(a) == Abs(a[1]) <= a[2]
RatAbsLtOne(a) == Abs(a[1]) < a[2]

RECURSIVE RatSum(_)
RatSum(s) == IF s = <<>> THEN <<0, 1>> ELSE RatAdd(Head(s), RatSum(Tail(s)))

-----------------------------------------------------------------------------
(* createRidgelinePlot (ridgelinePlot.js) *)

KDE_BANDWIDTH == 20
KDE_TICKS == 60
NICE_COUNT == 10
RIDGE_BORDER_BOX_PADDING == 15
RIDGE_MARGIN_TOP == 30
RIDGE_MARGIN_BOTTOM == 40

\* String(d.Generation) for the generations of the data set
String(g) == CASE g = 1 -> "1" [] g = 2 -> "2" [] g = 3 -> "3" [] OTHER -> "NaN"

\* the elements of a set of integers in ascending order: .sort((a, b) => a - b)
RECURSIVE SortAsc(_)
SortAsc(S) ==
    IF S = {} THEN <<>>
    ELSE LET m == CHOOSE x \in S : \A y \in S : x <= y
         IN <<m>> \o SortAsc(S \ {m})

\* generations: the distinct non-NaN Generation values, sorted numerically
generations(recs) ==
    SortAsc({recs[i].Generation : i \in 1..Len(recs)} \ {NaN})

\* the records d3.group receives: valid Total and valid Generation
validRecords(recs) ==
    SelectSeq(recs, LAMBDA r : r.Total # NaN /\ r.Generation # NaN)

\* dataByGenArray: per generation key its valid records, empty groups removed
dataByGenArray(recs) ==
    LET gens == generations(recs)
        all == [i \in 1..Len(gens) |->
                   [key |-> String(gens[i]),
                    values |-> SelectSeq(validRecords(recs),
                                 LAMBDA r : String(r.Generation) = String(gens[i]))]]
    IN SelectSeq(all, LAMBDA d : Len(d.values) > 0)

\* d3.extent(data, d => d.Total): NaN totals are ignored; <<NaN, NaN>>
\* stands for [undefined, undefined]
totalExtent(recs) ==
    LET T == {recs[i].Total : i \in 1..Len(recs)} \ {NaN}
    IN IF T = {} THEN <<NaN, NaN>>
       ELSE <<CHOOSE x \in T : \A y \in T : x <= y,
              CHOOSE x \in T : \A y \in T : x >= y>>

\* one pass of scale.nice(): widen the domain to multiples of the tick step
nicePass(dom) ==
    IF dom[1] = dom[2] THEN dom
    ELSE LET step == tickIncrement(dom[1], dom[2], NICE_COUNT)
         IN IF step.d = 1
            THEN <<FloorDiv(dom[1], step.n) * step.n, CeilDiv(dom[2], step.n) * step.n>>
            ELSE dom

\* xScale.domain(totalExtent).nice()
niceDomain(ext) == nicePass(nicePass(ext))

\* xScale.ticks(60): the query points of the estimator, as fractions
queryPoints(recs) ==
    LET dom == niceDomain(totalExtent(recs))
        t == ticks(dom[1], dom[2], KDE_TICKS)
    IN [i \in 1..Len(t.nums) |-> RatNorm(t.nums[i], t.den)]

\* variant of kernelEpanechnikov without the test of the kernel's support
kernelEpanechnikovNoSupport(k, v) ==
    LET u == RatDivInt(v, k)
    IN RatDivInt(RatMul(<<3, 4>>, RatSub(RatInt(1), RatMul(u, u))), k)

\* variant of kernelEpanechnikov that leaves out the division by k
kernelEpanechnikovUnscaled(k, v) ==
    LET u == RatDivInt(v, k)
    IN IF RatAbsLeOne(u)
       THEN RatMul(<<3, 4>>, RatSub(RatInt(1), RatMul(u, u)))
       ELSE <<0, 1>>

\* kernelEpanechnikov(k)(v):
\*   Math.abs(v /= k) <= 1 ? 0.75 * (1 - v * v) / k : 0
kernelEpanechnikov(k, v) ==
    LET u == RatDivInt(v, k)
    IN IF RatAbsLeOne(u)
       THEN RatDivInt(RatMul(<<3, 4>>, RatSub(RatInt(1), RatMul(u, u))), k)
       ELSE <<0, 1>>

\* d3.mean(V, f): the sum of f(v) over the count of values
mean(V, f(_)) ==
    LET m == RatDivInt(RatSum([i \in 1..Len(V) |-> f(V[i])]), Len(V))
    IN RatNorm(m[1], m[2])

\* kernelDensityEstimator(kernel, X)(V):
\*   X.map(x => [x, d3.mean(V, v => kernel(x - v))])
kde(X, V) ==
    [i \in 1..Len(X) |->
        [x |-> X[i],
         y |-> mean(V, LAMBDA v : kernelEpanechnikov(KDE_BANDWIDTH,
                                     RatSub(X[i], RatInt(v))))]]

\* genDataTotals: d.values.map(p => p.Total).filter(val => !isNaN(val))
genDataTotals(d) ==
    SelectSeq([i \in 1..Len(d.values) |-> d.values[i].Total], LAMBDA t : t # NaN)

\* d3.max(density, p => p[1]) > 0
maxDensityPositive(density) == \E i \in 1..Len(density) : density[i].y[1] > 0

\* variant of ridgeEach that estimates the density of a single-value group
ridgeEachNoGuard(d, X) ==
    LET V == genDataTotals(d)
    IN IF Len(V) < 1
       THEN [key |-> d.key, status |-> "skipped", density |-> <<>>]
       ELSE LET density == kde(X, V)
            IN IF ~maxDensityPositive(density)
               THEN [key |-> d.key, status |-> "nodensity", density |-> <<>>]
               ELSE [key |-> d.key, status |-> "path", density |-> density]

\* the .each callback of the ridges: what one generation's group receives
ridgeEach(d, X) ==
    LET V == genDataTotals(d)
    IN IF Len(V) < 2
       THEN [key |-> d.key, status |-> "skipped", density |-> <<>>]
       ELSE LET density == kde(X, V)
            IN IF ~maxDensityPositive(density)
               THEN [key |-> d.key, status |-> "nodensity", density |-> <<>>]
               ELSE [key |-> d.key, status |-> "path", density |-> density]

\* height of the drawing area for a container of the given clientHeight
ridgeHeight(clientHeight) ==
    clientHeight - RIDGE_BORDER_BOX_PADDING * 2 - RIDGE_MARGIN_TOP - RIDGE_MARGIN_BOTTOM

\* yScale.bandwidth() > 0: the band of n >= 1 generations over [0, height]
\* with paddingInner 0.2 is height * 8 / (10 n - 2)
bandwidthPositive(height, n) == height * 8 > 0 /\ 10 * n - 2 > 0

Generations == {1, 2, NaN}
Totals == {NaN, 300, 340}
ClientHeights == {100, 400}

PokemonRecords ==
    [Generation : Generations, Total : Totals, Type_1 : {"Fire"}, Type_2 : {"None"}]

HistIdle ==
    /\ salaryHistogramData = <<>>
    /\ histPc = "idle"
    /\ bins = NoBins

RidgeInit ==
    /\ SankeyIdle
    /\ AppIdle
    /\ BrushIdle
    /\ ScatterIdle
    /\ StudentIdle
    /\ HistIdle
    /\ StackIdle
    /\ pokemonData \in SeqsUpTo(PokemonRecords, MaxPokemon)
    /\ ridgePc = "loaded"
    /\ ridgeText = "none"
    /\ ridges = <<>>
    /\ consoleWarn = {}

createRidgelinePlot ==
    /\ ridgePc = "loaded"
    /\ \E clientHeight \in ClientHeights :
         LET groups == dataByGenArray(pokemonData)
             ext == totalExtent(pokemonData)
             X == queryPoints(pokemonData)
             drawn == [i \in 1..Len(groups) |-> ridgeEach(groups[i], X)]
         IN IF Len(validRecords(pokemonData)) = 0
            THEN /\ ridgeText' = "No data for Ridgeline Plot."
                 /\ UNCHANGED <<ridges, consoleWarn>>
            ELSE IF ext[1] = NaN \/ ext[2] = NaN
            THEN /\ ridgeText' = "Invalid 'Total' stat data."
                 /\ UNCHANGED <<ridges, consoleWarn>>
            ELSE IF ~bandwidthPositive(ridgeHeight(clientHeight),
                                       Len(generations(pokemonData)))
            THEN /\ ridgeText' = "Chart height too small for Ridgeline."
                 /\ UNCHANGED <<ridges, consoleWarn>>
            ELSE /\ ridgeText' = "none"
                 /\ ridges' = drawn
                 /\ consoleWarn' = {<<drawn[i].status, drawn[i].key>> : i \in
                                      {j \in 1..Len(drawn) : drawn[j].status # "path"}}
    /\ ridgePc' = "returned"
    /\ UNCHANGED <<pokemonData, histVars, stackVars,
                   sankeyVars, appVars, brushVars, scatterVars, studentVars>>

RidgeNext == createRidgelinePlot

RidgeSpec == RidgeInit /\ [][RidgeNext]_vars

-----------------------------------------------------------------------------
(* Properties of the density estimation *)

\* the ridges were drawn: createRidgelinePlot got past its early returns
RidgesDrawn == ridgePc = "returned" /\ ridgeText = "none" /\ ridges # <<>>

\* the sample of the j-th ridge
RidgeSample(j) == genDataTotals(dataByGenArray(pokemonData)[j])

\* the reference kernel  k(u) = 0.75 * (1 - u^2)  for |u| <= 1, else 0
Epanechnikov(u) ==
    IF RatAbsLeOne(u)
    THEN RatSub(<<3, 4>>, RatMul(<<3, 4>>, RatMul(u, u)))
    ELSE <<0, 1>>

\* mean over v in V of kernel((x - v) / bandwidth) / bandwidth
ReferenceDensity(x, V, bandwidth) ==
    LET m == RatDivInt(
                 RatSum([i \in 1..Len(V) |->
                    RatDivInt(Epanechnikov(RatDivInt(RatSub(x, RatInt(V[i])), bandwidth)),
                              bandwidth)]),
                 Len(V))
    IN RatNorm(m[1], m[2])

\* C6: every drawn ridge holds one pair [x, density] per query point, in the
\* order of the query points, and the density is the mean over the sample
\* of Epanechnikov((x - v) / bandwidth) / bandwidth.
KdeFormula ==
    RidgesDrawn
    => LET X == queryPoints(pokemonData)
       IN \A j \in 1..Len(ridges) :
             ridges[j].status = "path"
             => LET V == RidgeSample(j)
                IN /\ Len(ridges[j].density) = Len(X)
                   /\ \A i \in 1..Len(ridges[j].density) :
                         /\ ridges[j].density[i].x = X[i]
                         /\ ridges[j].density[i].y
                              = ReferenceDensity(X[i], V, KDE_BANDWIDTH)

\* a ridge over two different sample values has a curve with points inside
\* and outside the kernel's support
KdeFormulaWitness ==
    /\ RidgesDrawn
    /\ \E j \in 1..Len(ridges) :
          /\ ridges[j].status = "path"
          /\ Cardinality(Range(RidgeSample(j))) >= 2
          /\ \E i \in 1..Len(ridges[j].density) : ridges[j].density[i].y[1] > 0
          /\ \E i \in 1..Len(ridges[j].density) : ridges[j].density[i].y[1] = 0

\* |x - v| <= bandwidth  and  |x - v| < bandwidth
WithinBandwidth(x, v) == RatAbsLeOne(RatDivInt(RatSub(x, RatInt(v)), KDE_BANDWIDTH))
InsideBandwidth(x, v) == RatAbsLtOne(RatDivInt(RatSub(x, RatInt(v)), KDE_BANDWIDTH))

\* C7 as stated: every density is >= 0, and it is 0 exactly when no sample
\* value lies within one bandwidth (|x - v| <= bandwidth) of the query point.
KdeZeroIffNoneWithin ==
    RidgesDrawn
    => \A j \in 1..Len(ridges) :
          LET V == Range(RidgeSample(j))
          IN \A i \in 1..Len(ridges[j].density) :
                /\ ridges[j].density[i].y[1] >= 0
                /\ (ridges[j].density[i].y[1] = 0)
                     <=> ~\E v \in V : WithinBandwidth(ridges[j].density[i].x, v)

\* C7 amended: every density is >= 0, and it is 0 exactly when no sample
\* value lies strictly less than one bandwidth from the query point.
KdeNonNegative ==
    RidgesDrawn
    => \A j \in 1..Len(ridges) :
          LET V == Range(RidgeSample(j))
          IN \A i \in 1..Len(ridges[j].density) :
                /\ ridges[j].density[i].y[1] >= 0
                /\ ridges[j].density[i].y[2] > 0
                /\ (ridges[j].density[i].y[1] = 0)
                     <=> ~\E v \in V : InsideBandwidth(ridges[j].density[i].x, v)

\* a curve with a positive point, and with a zero point that has a sample
\* value exactly one bandwidth away
KdeNonNegativeWitness ==
    /\ RidgesDrawn
    /\ \E j \in 1..Len(ridges) :
          /\ \E i \in 1..Len(ridges[j].density) : ridges[j].density[i].y[1] > 0
          /\ \E i \in 1..Len(ridges[j].density) :
                /\ ridges[j].density[i].y[1] = 0
                /\ \E v \in Range(RidgeSample(j)) :
                      /\ WithinBandwidth(ridges[j].density[i].x, v)
                      /\ ~InsideBandwidth(ridges[j].density[i].x, v)

-----------------------------------------------------------------------------
(* createStackedBarChart (stackedBarChart.js) *)

STACK_BORDER_BOX_PADDING == 5

\* the type names of the data set in the order of String.localeCompare
TypeNames == <<"Fire", "Flying", "Grass", "None", "Water">>
TypeRank(t) == CHOOSE i \in 1..Len(TypeNames) : TypeNames[i] = t

\* a.localeCompare(b): negative, zero or positive
localeCompare(a, b) == TypeRank(a) - TypeRank(b)

\* [...new Set(values)]: the distinct values in first-seen order
RECURSIVE Distinct(_)
Distinct(s) ==
    IF s = <<>> THEN <<>>
    ELSE LET init == Distinct(SubSeq(s, 1, Len(s) - 1))
             x == s[Len(s)]
         IN IF x \in Range(init) THEN init ELSE Append(init, x)

\* Array.prototype.sort with comparator cmp (a stable sort): an element
\* comes after the elements that sort before it and after the earlier
\* elements that compare equal to it
SortWith(s, cmp(_, _)) ==
    LET pos(i) == 1 + Cardinality({j \in 1..Len(s) :
                        \/ (j # i /\ cmp(s[j], s[i]) < 0)
                        \/ (cmp(s[j], s[i]) = 0 /\ j < i)})
    IN [p \in 1..Len(s) |-> s[CHOOSE i \in 1..Len(s) : pos(i) = p]]

\* variant of noneFirst that compares the names only
noneFirstByName(a, b) == localeCompare(a, b)

\* (a, b) => a === "None" ? -1 : b === "None" ? 1 : a.localeCompare(b)
noneFirst(a, b) ==
    IF a = "None" THEN -1 ELSE IF b = "None" THEN 1 ELSE localeCompare(a, b)

\* secondaryTypes: the distinct Type_2 values, "None" first
secondaryTypesOf(recs) ==
    SortWith(Distinct([i \in 1..Len(recs) |-> recs[i].Type_2]), noneFirst)

\* variant of initialCounts that zero-fills only the types of the leaves
initialCountsOfLeaves(secTypes, leaves) ==
    [t \in {leaves[i].Type_2 : i \in 1..Len(leaves)} |-> 0]

\* Object.fromEntries(secondaryTypes.map(secType => [secType, 0]))
initialCounts(secTypes, leaves) == [t \in Range(secTypes) |-> 0]

\* variant of leafCounted that tests the count for truthiness
leafCountedTruthy(counts, leaf) ==
    leaf.Type_2 \in DOMAIN counts /\ counts[leaf.Type_2] # 0

\* variant of leafCounted without the guard: every leaf is counted
leafCountedUnguarded(counts, leaf) == TRUE

\* counts[leaf.Type_2] !== undefined
leafCounted(counts, leaf) == leaf.Type_2 \in DOMAIN counts

\* leaves.forEach(...): the counts and the leaves warned about
RECURSIVE countLeaves(_, _)
countLeaves(counts, leaves) ==
    IF leaves = <<>> THEN [counts |-> counts, warned |-> <<>>]
    ELSE LET leaf == Head(leaves)
             now == IF leafCounted(counts, leaf)
                    THEN [counts EXCEPT ![leaf.Type_2] = @ + 1]
                    ELSE counts
             rest == countLeaves(now, Tail(leaves))
         IN [counts |-> rest.counts,
             warned |-> IF leafCounted(counts, leaf)
                        THEN rest.warned ELSE <<leaf>> \o rest.warned]

\* the reducer of d3.rollup: the counts object of one group of leaves, with
\* the property total assigned last (counts.total = leaves.length)
reduceLeaves(secTypes, leaves) ==
    LET r == countLeaves(initialCounts(secTypes, leaves), leaves)
    IN [counts |-> ("total" :> Len(leaves)) @@ r.counts, warned |-> r.warned]

\* d3.rollup(data, reducer, d => d.Type_1): one entry per Type_1 in
\* first-seen order, reduced over its leaves in data order
rollup(recs, secTypes) ==
    LET keys == Distinct([i \in 1..Len(recs) |-> recs[i].Type_1])
    IN [k \in 1..Len(keys) |->
          LET r == reduceLeaves(secTypes, SelectSeq(recs, LAMBDA d : d.Type_1 = keys[k]))
          IN [primaryType |-> keys[k], counts |-> r.counts, warned |-> r.warned]]

\* ([, a], [, b]) => b.total - a.total
byTotalDescending(a, b) == b.counts["total"] - a.counts["total"]

\* Array.from(countsByType.entries()).sort(...).map(...)
sortedCounts(entries) ==
    LET sorted == SortWith(entries, byTotalDescending)
    IN [i \in 1..Len(sorted) |->
          [primaryType |-> sorted[i].primaryType, counts |-> sorted[i].counts]]

RECURSIVE Flatten(_)
Flatten(ss) == IF ss = <<>> THEN <<>> ELSE Head(ss) \o Flatten(Tail(ss))

PrimaryTypes == {"Fire", "Grass", "Water"}
SecondaryTypes == {"None", "Flying", "Fire"}
StackClientSizes == {10, 400}

StackRecords ==
    [Generation : {1}, Total : {300}, Type_1 : PrimaryTypes, Type_2 : SecondaryTypes]

StackInit ==
    /\ SankeyIdle
    /\ AppIdle
    /\ BrushIdle
    /\ ScatterIdle
    /\ StudentIdle
    /\ HistIdle
    /\ pokemonData \in SeqsUpTo(StackRecords, MaxStackRecords)
    /\ ridgePc = "idle"
    /\ ridgeText = "none"
    /\ ridges = <<>>
    /\ consoleWarn = {}
    /\ stackPc = "loaded"
    /\ stackHtml = "none"
    /\ secondaryTypes = <<>>
    /\ countsByType = <<>>
    /\ sortedCountsArray = <<>>
    /\ stackWarn = <<>>

createStackedBarChart ==
    /\ stackPc = "loaded"
    /\ \E clientWidth \in StackClientSizes, clientHeight \in StackClientSizes :
         LET containerWidth == clientWidth - STACK_BORDER_BOX_PADDING * 2
             containerHeight == clientHeight - STACK_BORDER_BOX_PADDING * 2
             secTypes == secondaryTypesOf(pokemonData)
             entries == rollup(pokemonData, secTypes)
         IN IF containerWidth <= 0 \/ containerHeight <= 0
            THEN /\ stackHtml' = "Container has no size. Cannot draw chart."
                 /\ UNCHANGED <<secondaryTypes, countsByType, sortedCountsArray,
                                stackWarn>>
            ELSE /\ stackHtml' = "svg"
                 /\ secondaryTypes' = secTypes
                 /\ countsByType' = [k \in 1..Len(entries) |->
                                       [primaryType |-> entries[k].primaryType,
                                        counts |-> entries[k].counts]]
                 /\ sortedCountsArray' = sortedCounts(entries)
                 /\ stackWarn' = Flatten([k \in 1..Len(entries) |-> entries[k].warned])
    /\ stackPc' = "returned"
    /\ UNCHANGED <<pokemonData, ridgePc, ridgeText, ridges, consoleWarn, histVars,
                   sankeyVars, appVars, brushVars, scatterVars, studentVars>>

StackNext == createStackedBarChart

StackSpec == StackInit /\ [][StackNext]_vars

\* The rollup statement on its own: the reducer closes over secondaryTypes,
\* so the statement is a function of the records and of the resolved domain.
\* The domains are the ones the sort statement can produce.
ResolvedDomains ==
    {secondaryTypesOf(r) : r \in SeqsUpTo(StackRecords, MaxStackRecords)}

RollupInit ==
    /\ SankeyIdle
    /\ AppIdle
    /\ BrushIdle
    /\ ScatterIdle
    /\ StudentIdle
    /\ HistIdle
    /\ pokemonData \in SeqsUpTo(StackRecords, MaxStackRecords)
    /\ ridgePc = "idle"
    /\ ridgeText = "none"
    /\ ridges = <<>>
    /\ consoleWarn = {}
    /\ stackPc = "resolved"
    /\ stackHtml = "svg"
    /\ secondaryTypes \in ResolvedDomains
    /\ countsByType = <<>>
    /\ sortedCountsArray = <<>>
    /\ stackWarn = <<>>

\* const countsByType = d3.rollup(data, leaves => {...}, d => d.Type_1)
rollupCountsByType ==
    /\ stackPc = "resolved"
    /\ LET entries == rollup(pokemonData, secondaryTypes)
       IN /\ countsByType' = [k \in 1..Len(entries) |->
                                [primaryType |-> entries[k].primaryType,
                                 counts |-> entries[k].counts]]
          /\ stackWarn' = Flatten([k \in 1..Len(entries) |-> entries[k].warned])
    /\ stackPc' = "rolled"
    /\ UNCHANGED <<pokemonData, ridgePc, ridgeText, ridges, consoleWarn, histVars,
                   stackHtml, secondaryTypes, sortedCountsArray,
                   sankeyVars, appVars, brushVars, scatterVars, studentVars>>

RollupNext == rollupCountsByType

RollupSpec == RollupInit /\ [][RollupNext]_vars

-----------------------------------------------------------------------------
(* Properties of the stacked grouping *)

StackDrawn == stackPc = "returned" /\ stackHtml = "svg"

\* the sum of a group's sub-counts over the secondary domain
SubCountSum(counts) ==
    SeqSum([i \in 1..Len(secondaryTypes) |-> counts[secondaryTypes[i]]])

\* C9: every group's total is the sum of its sub-counts over the secondary
\* domain, there is one group per distinct Type_1, and the totals of all
\* groups sum to the number of records minus the records reported as
\* unknown category.
StackTotalConsistency ==
    StackDrawn
    => /\ \A k \in 1..Len(countsByType) :
             countsByType[k].counts["total"] = SubCountSum(countsByType[k].counts)
       /\ {countsByType[k].primaryType : k \in 1..Len(countsByType)}
             = {pokemonData[i].Type_1 : i \in 1..Len(pokemonData)}
       /\ \A k, l \in 1..Len(countsByType) :
             countsByType[k].primaryType = countsByType[l].primaryType => k = l
       /\ SeqSum([k \in 1..Len(countsByType) |-> countsByType[k].counts["total"]])
             = Len(pokemonData) - Len(stackWarn)

\* two groups, one of them holding records of two different secondary types
StackTotalConsistencyWitness ==
    /\ StackDrawn
    /\ Len(countsByType) >= 2
    /\ \E k \in 1..Len(countsByType) :
          /\ countsByType[k].counts["total"] >= 2
          /\ Cardinality({t \in Range(secondaryTypes) :
                            countsByType[k].counts[t] > 0}) >= 2

\* C10: every group's sub-counts are keyed by the whole secondary domain
\* (every Type_2 of the records), so all groups have the same key set, and a
\* (Type_1, Type_2) combination without a record has the explicit count 0.
StackDomainComplete ==
    StackDrawn
    => /\ Range(secondaryTypes) = {pokemonData[i].Type_2 : i \in 1..Len(pokemonData)}
       /\ \A k \in 1..Len(countsByType) :
             /\ DOMAIN countsByType[k].counts \ {"total"} = Range(secondaryTypes)
             /\ \A t \in Range(secondaryTypes) :
                   (~\E i \in 1..Len(pokemonData) :
                        /\ pokemonData[i].Type_1 = countsByType[k].primaryType
                        /\ pokemonData[i].Type_2 = t)
                   => countsByType[k].counts[t] = 0
       /\ \A k, l \in 1..Len(countsByType) :
             DOMAIN countsByType[k].counts = DOMAIN countsByType[l].counts

\* two groups over a domain of two secondary types, one group without any
\* record of one of the types
StackDomainCompleteWitness ==
    /\ StackDrawn
    /\ Len(countsByType) >= 2
    /\ Len(secondaryTypes) >= 2
    /\ \E k \in 1..Len(countsByType) : \E t \in Range(secondaryTypes) :
          /\ countsByType[k].counts[t] = 0
          /\ ~\E i \in 1..Len(pokemonData) :
                /\ pokemonData[i].Type_1 = countsByType[k].primaryType
                /\ pokemonData[i].Type_2 = t

\* the orders in which the same records can be listed
RecordOrders(n) ==
    {f \in [1..n -> 1..n] : \A i, j \in 1..n : f[i] = f[j] => i = j}
Permuted(recs, f) == [i \in 1..Len(recs) |-> recs[f[i]]]

\* C11: the secondary domain holds every distinct Type_2 of the records
\* exactly once, with "None" first when it is present and the other keys in
\* ascending lexicographic order, and it is the same for every order of the
\* same records.
StackDomainOrder ==
    StackDrawn
    => /\ Range(secondaryTypes) = {pokemonData[i].Type_2 : i \in 1..Len(pokemonData)}
       /\ \A i, j \in 1..Len(secondaryTypes) :
             secondaryTypes[i] = secondaryTypes[j] => i = j
       /\ \A i \in 1..Len(secondaryTypes) :
             secondaryTypes[i] = "None" => i = 1
       /\ \A i, j \in 1..Len(secondaryTypes) :
             (i < j /\ secondaryTypes[i] # "None")
             => TypeRank(secondaryTypes[i]) < TypeRank(secondaryTypes[j])
       /\ \A f \in RecordOrders(Len(pokemonData)) :
             secondaryTypesOf(Permuted(pokemonData, f)) = secondaryTypes

\* three secondary types, seen in an order that is neither "None" first nor
\* ascending
StackDomainOrderWitness ==
    /\ StackDrawn
    /\ Len(pokemonData) = 3
    /\ pokemonData[1].Type_2 = "Flying"
    /\ pokemonData[2].Type_2 = "None"
    /\ pokemonData[3].Type_2 = "Fire"
    /\ secondaryTypes = <<"None", "Fire", "Flying">>

\* C12: the groups are ordered by descending total and, among equal totals,
\* by ascending group key, so the order is the same for every order of the
\* same records.
StackGroupOrder ==
    StackDrawn
    => /\ \A i, j \in 1..Len(sortedCountsArray) :
             i < j
             => \/ sortedCountsArray[i].counts["total"] > sortedCountsArray[j].counts["total"]
                \/ /\ sortedCountsArray[i].counts["total"] = sortedCountsArray[j].counts["total"]
                   /\ TypeRank(sortedCountsArray[i].primaryType)
                        < TypeRank(sortedCountsArray[j].primaryType)
       /\ \A f \in RecordOrders(Len(pokemonData)) :
             sortedCounts(rollup(Permuted(pokemonData, f),
                                 secondaryTypesOf(Permuted(pokemonData, f))))
               = sortedCountsArray

\* the leaves the reducer reports: the records whose Type_2 is outside the
\* domain, group by group
UnknownLeaves ==
    Flatten([k \in 1..Len(countsByType) |->
               SelectSeq(pokemonData,
                         LAMBDA d : /\ d.Type_1 = countsByType[k].primaryType
                                    /\ d.Type_2 \notin Range(secondaryTypes))])

\* C13: a record whose Type_2 is not in the resolved domain is reported and
\* adds to no sub-count, and the rollup still completes with one group per
\* Type_1 of the records, each group holding the counts of its records whose
\* Type_2 is in the domain.
RollupUnknownSoft ==
    stackPc = "rolled"
    => /\ stackWarn = UnknownLeaves
       /\ {countsByType[k].primaryType : k \in 1..Len(countsByType)}
             = {pokemonData[i].Type_1 : i \in 1..Len(pokemonData)}
       /\ \A k \in 1..Len(countsByType) :
             /\ DOMAIN countsByType[k].counts = Range(secondaryTypes) \cup {"total"}
             /\ \A t \in Range(secondaryTypes) :
                   countsByType[k].counts[t]
                     = Cardinality({i \in 1..Len(pokemonData) :
                                      /\ pokemonData[i].Type_1 = countsByType[k].primaryType
                                      /\ pokemonData[i].Type_2 = t})

\* a group with a record inside the domain and a record outside of it
RollupUnknownSoftWitness ==
    /\ stackPc = "rolled"
    /\ Len(stackWarn) >= 1
    /\ \E k \in 1..Len(countsByType) :
          /\ \E i \in 1..Len(stackWarn) :
                stackWarn[i].Type_1 = countsByType[k].primaryType
          /\ \E t \in Range(secondaryTypes) : countsByType[k].counts[t] >= 1

-----------------------------------------------------------------------------
(* displaySankey (Homework2/ashih/main.js) *)

MaxFlowRecords == 3

\* a < b and a >= b as JavaScript evaluates them
Lt(a, b) == Gt(b, a)
Ge(a, b) == Le(b, a)

\* the value of object[key] for a key the object does not have, which is
\* also the property name that a lookup with that value uses
Undefined == "undefined"

binSalaries(salary) ==
    IF Lt(salary, 50000) THEN "< 50k"
    ELSE IF Ge(salary, 50000) /\ Lt(salary, 100000) THEN "50k-100k"
    ELSE IF Ge(salary, 100000) /\ Lt(salary, 150000) THEN "100k-150k"
    ELSE IF Ge(salary, 150000) /\ Lt(salary, 200000) THEN "150k-200k"
    ELSE "200k+"

experienceLevelMap ==
    [SE |-> "Senior", MI |-> "Mid Level", EN |-> "Entry Level", EX |-> "Executive"]

\* experienceLevelMap[experience_level]
experienceLevelOf(code) ==
    IF code \in DOMAIN experienceLevelMap THEN experienceLevelMap[code] ELSE Undefined

binWorkTypes(remoteRatio) ==
    IF Le(remoteRatio, 33) THEN "in-office"
    ELSE IF Gt(remoteRatio, 33) /\ Le(remoteRatio, 66) THEN "hybrid"
    ELSE "remote"

\* variant of parallelDataOf that leaves out the records whose experience
\* level has no entry in experienceLevelMap
parallelDataOfKnownLevels(recs) ==
    LET known == SelectSeq(recs, LAMBDA r : r.experience_level \in DOMAIN experienceLevelMap)
    IN [i \in 1..Len(known) |->
          [salaryBin |-> binSalaries(known[i].salary_in_usd),
           experienceLevel |-> experienceLevelOf(known[i].experience_level),
           workType |-> binWorkTypes(known[i].remote_ratio)]]

\* parallelData = salaryData.map(...)
parallelDataOf(recs) ==
    [i \in 1..Len(recs) |->
       [salaryBin |-> binSalaries(recs[i].salary_in_usd),
        experienceLevel |-> experienceLevelOf(recs[i].experience_level),
        workType |-> binWorkTypes(recs[i].remote_ratio)]]

\* Array.from(new Set(data.map(({salaryBin}) => salaryBin))) and the like
salaryBinsOf(recs) == Distinct([i \in 1..Len(recs) |-> recs[i].salaryBin])
experienceLevelsOf(recs) == Distinct([i \in 1..Len(recs) |-> recs[i].experienceLevel])
workTypesOf(recs) == Distinct([i \in 1..Len(recs) |-> recs[i].workType])

\* [...salaryBins, ...experienceLevel, ...workType]: the id of node k is at
\* position k + 1
nodeIds(recs) == salaryBinsOf(recs) \o experienceLevelsOf(recs) \o workTypesOf(recs)

\* Object.fromEntries(nodes.map(({ id }, index) => [id, index])): a later
\* entry with the same id replaces the earlier one
nodeMapOf(ids) ==
    [v \in Range(ids) |->
       (CHOOSE k \in 1..Len(ids) :
           ids[k] = v /\ \A l \in 1..Len(ids) : ids[l] = v => l <= k) - 1]

\* variant of linkStep that sets the two cells to 1
linkStepSet(matrix, nodeMap, rec) ==
    LET a == nodeMap[rec.salaryBin]
        b == nodeMap[rec.experienceLevel]
        c == nodeMap[rec.workType]
        first == [matrix EXCEPT ![a][b] = 1]
    IN [first EXCEPT ![b][c] = 1]

\* the callback of data.forEach: two cells of linkMatrix are incremented
linkStep(matrix, nodeMap, rec) ==
    LET a == nodeMap[rec.salaryBin]
        b == nodeMap[rec.experienceLevel]
        c == nodeMap[rec.workType]
        first == [matrix EXCEPT ![a][b] = @ + 1]
    IN [first EXCEPT ![b][c] = @ + 1]

\* linkMatrix after data.forEach, starting from the n x n matrix of zeros
RECURSIVE linkMatrixOf(_, _, _)
linkMatrixOf(recs, nodeMap, n) ==
    IF recs = <<>> THEN [i \in 0..(n - 1) |-> [j \in 0..(n - 1) |-> 0]]
    ELSE linkStep(linkMatrixOf(SubSeq(recs, 1, Len(recs) - 1), nodeMap, n),
                  nodeMap, recs[Len(recs)])

\* the two loops over i and j: one link per positive cell, row by row
linksOf(matrix, n) ==
    LET cells == [p \in 1..(n * n) |->
                    [source |-> (p - 1) \div n,
                     target |-> (p - 1) % n,
                     value |-> matrix[(p - 1) \div n][(p - 1) % n]]]
    IN SelectSeq(cells, LAMBDA c : c.value > 0)

SankeySalaries == {40000, 120000}
SankeyLevels == {"SE", "MI", "XX"}
SankeyRemoteRatios == {0, 100}

SalaryRecords ==
    [salary_in_usd : SankeySalaries, experience_level : SankeyLevels,
     remote_ratio : SankeyRemoteRatios]

SankeyInit ==
    /\ HistIdle
    /\ RidgeIdle
    /\ StackIdle
    /\ AppIdle
    /\ BrushIdle
    /\ ScatterIdle
    /\ StudentIdle
    /\ pokemonData = <<>>
    /\ salaryData \in SeqsUpTo(SalaryRecords, MaxFlowRecords)
    /\ parallelData = <<>>
    /\ sankeyPc = "loaded"
    /\ nodes = <<>>
    /\ links = <<>>

\* displayDashboard: parallelData is computed and handed to displaySankey
displayDashboard ==
    /\ sankeyPc = "loaded"
    /\ LET data == parallelDataOf(salaryData)
           ids == nodeIds(data)
       IN /\ parallelData' = data
          /\ nodes' = ids
          /\ links' = linksOf(linkMatrixOf(data, nodeMapOf(ids), Len(ids)), Len(ids))
    /\ sankeyPc' = "drawn"
    /\ UNCHANGED <<salaryData, histVars, ridgeVars, stackVars, appVars, brushVars, scatterVars, studentVars>>

SankeyNext == displayDashboard

SankeySpec == SankeyInit /\ [][SankeyNext]_vars

\* displaySankey as a function of its parameter: the documented fields of a
\* record are three strings, whatever selectors produced them
FlowLabels == {"A", "B"}

FlowRecords ==
    [salaryBin : FlowLabels, experienceLevel : FlowLabels, workType : FlowLabels]

DisplaySankeyInit ==
    /\ HistIdle
    /\ RidgeIdle
    /\ StackIdle
    /\ AppIdle
    /\ BrushIdle
    /\ ScatterIdle
    /\ StudentIdle
    /\ pokemonData = <<>>
    /\ salaryData = <<>>
    /\ parallelData \in SeqsUpTo(FlowRecords, MaxFlowRecords)
    /\ sankeyPc = "called"
    /\ nodes = <<>>
    /\ links = <<>>

displaySankey ==
    /\ sankeyPc = "called"
    /\ LET ids == nodeIds(parallelData)
       IN /\ nodes' = ids
          /\ links' = linksOf(linkMatrixOf(parallelData, nodeMapOf(ids), Len(ids)),
                              Len(ids))
    /\ sankeyPc' = "drawn"
    /\ UNCHANGED <<salaryData, parallelData, histVars, ridgeVars, stackVars,
                   appVars, brushVars, scatterVars, studentVars>>

DisplaySankeyNext == displaySankey

DisplaySankeySpec == DisplaySankeyInit /\ [][DisplaySankeyNext]_vars

-----------------------------------------------------------------------------
(* Properties of the flow graph *)

SankeyDrawn == sankeyPc = "drawn"

\* the node indices of the three selectors: consecutive segments of nodes
FirstSegment == 0..(Len(salaryBinsOf(parallelData)) - 1)
SecondSegment ==
    Len(salaryBinsOf(parallelData))
      ..(Len(salaryBinsOf(parallelData)) + Len(experienceLevelsOf(parallelData)) - 1)
ThirdSegment ==
    (Len(salaryBinsOf(parallelData)) + Len(experienceLevelsOf(parallelData)))
      ..(Len(nodes) - 1)

\* the node of a value within a segment
NodeIn(segment, v) == CHOOSE k \in segment : nodes[k + 1] = v

\* the value of the link between two nodes, 0 when there is none
Weight(i, j) ==
    IF \E l \in 1..Len(links) : links[l].source = i /\ links[l].target = j
    THEN LET l == CHOOSE l \in 1..Len(links) : links[l].source = i /\ links[l].target = j
         IN links[l].value
    ELSE 0

CoOccurrence(a, b, first) ==
    Cardinality({r \in 1..Len(parallelData) :
                   IF first
                   THEN parallelData[r].salaryBin = a /\ parallelData[r].experienceLevel = b
                   ELSE parallelData[r].experienceLevel = a /\ parallelData[r].workType = b})

\* C15: for salaryBin -> experienceLevel and experienceLevel -> workType, the
\* weight of the link (a, b) is the number of records with a at the first
\* selector and b at the second, and there is a link exactly for the pairs
\* with a positive count: one link at most per pair of nodes, none between
\* other nodes.
FlowEdgeWeights ==
    SankeyDrawn
    => /\ \A a \in Range(salaryBinsOf(parallelData)) :
          \A b \in Range(experienceLevelsOf(parallelData)) :
             Weight(NodeIn(FirstSegment, a), NodeIn(SecondSegment, b))
               = CoOccurrence(a, b, TRUE)
       /\ \A a \in Range(experienceLevelsOf(parallelData)) :
          \A b \in Range(workTypesOf(parallelData)) :
             Weight(NodeIn(SecondSegment, a), NodeIn(ThirdSegment, b))
               = CoOccurrence(a, b, FALSE)
       /\ \A l \in 1..Len(links) :
             /\ links[l].value > 0
             /\ \/ links[l].source \in FirstSegment /\ links[l].target \in SecondSegment
                \/ links[l].source \in SecondSegment /\ links[l].target \in ThirdSegment
       /\ \A l, m \in 1..Len(links) :
             (links[l].source = links[m].source /\ links[l].target = links[m].target)
             => l = m

\* a link of weight 2, a link of weight 1, and a pair of nodes of adjacent
\* selectors without a record
FlowEdgeWeightsWitness ==
    /\ SankeyDrawn
    /\ \E l, m \in 1..Len(links) : links[l].value = 2 /\ links[m].value = 1
    /\ \E i \in FirstSegment : \E j \in SecondSegment : Weight(i, j) = 0

\* the sum of the values of the links from one segment to another
FlowBetween(from, to) ==
    SeqSum([l \in 1..Len(links) |->
              IF links[l].source \in from /\ links[l].target \in to
              THEN links[l].value ELSE 0])

\* C16: the values of the links from the salaryBin nodes to the
\* experienceLevel nodes sum to the number of records, and so do the values
\* of the links from the experienceLevel nodes to the workType nodes; a
\* record whose experience_level has no entry in experienceLevelMap counts,
\* under the node of the value undefined.
FlowConservation ==
    SankeyDrawn
    => /\ Len(parallelData) = Len(salaryData)
       /\ FlowBetween(FirstSegment, SecondSegment) = Len(salaryData)
       /\ FlowBetween(SecondSegment, ThirdSegment) = Len(salaryData)

\* three records, one of them with an experience level outside the map
FlowConservationWitness ==
    /\ SankeyDrawn
    /\ Len(salaryData) = 3
    /\ \E r \in 1..3 : salaryData[r].experience_level \notin DOMAIN experienceLevelMap
    /\ \E r \in 1..3 : salaryData[r].experience_level \in DOMAIN experienceLevelMap
    /\ Undefined \in Range(nodes)
    /\ Len(links) >= 3

-----------------------------------------------------------------------------
(* debounce, renderPlots and the DOMContentLoaded handler
   (Homework2/alfranzen/main.js) *)

MaxResizeEvents == 2
MaxClock == 500
ClockStep == 125

\* the wait of debounce(..., 250); the third argument is left out
DEBOUNCE_WAIT == 250
Immediate == FALSE

\* variant of later() that never calls func
laterCallsFuncNever == FALSE

\* later(): if (!immediate) func.apply(context, args)
laterCallsFunc == ~Immediate

\* the containers of the three charts, in the order of renderPlots
ChartIds == <<"#topLeftChart", "#bottomLeftChart", "#rightChart">>

\* how a call of a chart function ends: it draws, it returns early with a
\* message, or it throws
Outcomes == {"ok", "early", "threw"}

\* what a container holds: svg elements, the "Chart Error" paragraph, the
\* "Container has no size" paragraph
EmptyContainer == [svgs |-> 0, error |-> FALSE, note |-> FALSE]

\* d3.select(id).select("svg").remove(): the first svg of the container
removeNoSvg(c) == c

removeFirstSvg(c) == [c EXCEPT !.svgs = IF @ > 0 THEN @ - 1 ELSE 0]

\* d3.select(id).html(`<p ...>Chart Error: ...</p>`)
htmlChartError(c) == [svgs |-> 0, error |-> TRUE, note |-> FALSE]

\* createStackedBarChart: container.html(""), then the message for a
\* container without size or the svg; an exception is thrown after that
createStackedBarChartIn(c, outcome) ==
    IF outcome = "early" THEN [EmptyContainer EXCEPT !.note = TRUE]
    ELSE [EmptyContainer EXCEPT !.svgs = 1]

\* createRidgelinePlot and createParallelCoordinatesPlot: the svg is
\* appended to what the container holds; the early return and an exception
\* of the drawing code come after container.append("svg")
createAppendedChartIn(c, outcome) == [c EXCEPT !.svgs = @ + 1]

createChartIn(id, c, outcome) ==
    IF id = "#topLeftChart" THEN createStackedBarChartIn(c, outcome)
    ELSE createAppendedChartIn(c, outcome)

\* variant of tryBlock without the catch clause
tryBlockNoCatch(id, c, outcome) ==
    LET tried == createChartIn(id, removeFirstSvg(c), outcome)
    IN [container |-> tried, escaped |-> outcome = "threw"]

\* try { select(id).select("svg").remove(); create(data, id) }
\* catch (error) { console.error(...); select(id).html(...) }
tryBlock(id, c, outcome) ==
    LET tried == createChartIn(id, removeFirstSvg(c), outcome)
    IN IF outcome = "threw"
       THEN [container |-> htmlChartError(tried), escaped |-> FALSE]
       ELSE [container |-> tried, escaped |-> FALSE]

\* renderPlots: the three blocks in order; a block runs only if no
\* exception has left an earlier block
RECURSIVE renderBlocks(_, _, _)
renderBlocks(k, st, outcomes) ==
    IF k > Len(ChartIds) THEN st
    ELSE LET id == ChartIds[k]
         IN IF st.uncaught
            THEN renderBlocks(k + 1,
                              [st EXCEPT !.lastRender[id] = "skipped"], outcomes)
            ELSE LET b == tryBlock(id, st.containers[id], outcomes[id])
                 IN renderBlocks(k + 1,
                                 [containers |-> [st.containers EXCEPT ![id] = b.container],
                                  lastRender |-> [st.lastRender EXCEPT ![id] = outcomes[id]],
                                  uncaught |-> b.escaped],
                                 outcomes)

renderPlots(conts, outcomes) ==
    renderBlocks(1, [containers |-> conts,
                     lastRender |-> [id \in Range(ChartIds) |-> "none"],
                     uncaught |-> FALSE], outcomes)

\* variant of clearTimeout that cancels nothing
clearTimeoutNothing(pending, id) == pending

\* clearTimeout(timeout): the pending callback with that id is cancelled
clearTimeout(pending, id) == {t \in pending : t.id # id}

\* a value with the type typeof reports for it
Str(v) == [type |-> "string", value |-> v]
Num(v) == [type |-> "number", value |-> v]
Bool(v) == [type |-> "boolean", value |-> v]

\* +text, for the texts of the files below
unaryPlus(text) ==
    CASE text = "318" -> 318
      [] text = "" -> 0
      [] OTHER -> NaN

\* parseFloat(text), for the texts of the files below
parseFloat(text) ==
    CASE text = "2" -> 2
      [] OTHER -> NaN

\* String.prototype.trim, for the texts of the files below
trim(text) ==
    CASE text = "Poison " -> "Poison"
      [] text = " " -> ""
      [] OTHER -> text

type2Kept(text) == text

\* the missing Type 2 becomes "None", any other is trimmed
type2Of(text) ==
    IF text = "" \/ trim(text) = "" THEN "None" ELSE trim(text)

\* the callback of data.forEach: the conversions of one record
convertRow(row) ==
    [Name |-> row.Name,
     Total |-> Num(unaryPlus(row.Total.value)),
     Height_m |-> Num(parseFloat(row.Height_m.value)),
     isLegendary |-> Bool(row.isLegendary.value = "True"),
     Type_1 |-> IF row.Type_1.value # "" THEN Str(trim(row.Type_1.value))
                ELSE row.Type_1,
     Type_2 |-> Str(type2Of(row.Type_2.value))]

convertRows(rows) == [i \in 1..Len(rows) |-> convertRow(rows[i])]

\* d3.csv gives every field as text
RowA ==
    [Name |-> Str("A"), Total |-> Str("318"), Height_m |-> Str("2"),
     isLegendary |-> Str("False"), Type_1 |-> Str("Grass"),
     Type_2 |-> Str("Poison ")]

RowB ==
    [Name |-> Str("B"), Total |-> Str("n/a"), Height_m |-> Str(""),
     isLegendary |-> Str("True"), Type_1 |-> Str("Psychic"),
     Type_2 |-> Str(" ")]

CsvFiles == {<<RowA>>, <<RowB, RowA>>}

AppInit ==
    /\ HistIdle
    /\ RidgeIdle
    /\ StackIdle
    /\ SankeyIdle
    /\ BrushIdle
    /\ ScatterIdle
    /\ StudentIdle
    /\ pokemonData = <<>>
    /\ loadState = "fetching"
    /\ resizeListener = FALSE
    /\ bodyFatal = FALSE
    /\ clock = 0
    /\ timeout = "undefined"
    /\ timers = {}
    /\ resizeCount = 0
    /\ lastResizeTime = 0
    /\ bursts = 0
    /\ funcCalls = 0
    /\ lastFunc = <<>>
    /\ containers = [id \in Range(ChartIds) |-> EmptyContainer]
    /\ lastRender = [id \in Range(ChartIds) |-> "none"]
    /\ uncaught = FALSE
    /\ csvRows \in CsvFiles
    /\ renderArg = <<>>

\* d3.csv("pokemon.csv").then(...): the records are converted, renderPlots
\* runs and the debounced resize listener is registered; an exception in the
\* callback goes to the catch callback of the promise
csvLoaded ==
    /\ loadState = "fetching"
    /\ loadState' = "loaded"
    /\ renderArg' = convertRows(csvRows)
    /\ \E outcomes \in [Range(ChartIds) -> Outcomes] :
         LET r == renderPlots(containers, outcomes)
         IN /\ containers' = r.containers
            /\ lastRender' = r.lastRender
            /\ uncaught' = r.uncaught
            /\ resizeListener' = ~r.uncaught
            /\ bodyFatal' = r.uncaught
    /\ UNCHANGED <<csvRows, debounceVars, histVars, ridgeVars, stackVars, sankeyVars,
                   brushVars, scatterVars, studentVars>>

\* d3.csv("pokemon.csv") rejects: the catch callback replaces the body
csvFailed ==
    /\ loadState = "fetching"
    /\ loadState' = "failed"
    /\ bodyFatal' = TRUE
    /\ UNCHANGED <<resizeListener, debounceVars, renderVars, loadVars,
                   histVars, ridgeVars, stackVars, sankeyVars, brushVars, scatterVars, studentVars>>

\* the function that debounce returns, called with resize event number
\* resizeCount + 1
Resize ==
    /\ resizeListener
    /\ resizeCount < MaxResizeEvents
    /\ LET args == resizeCount + 1
           callNow == Immediate /\ timeout \in {"undefined", "null"}
           id == resizeCount + 1
       IN /\ resizeCount' = args
          /\ lastResizeTime' = clock
          /\ bursts' = IF timers = {} THEN bursts + 1 ELSE bursts
          /\ timers' = clearTimeout(timers, timeout)
                         \cup {[id |-> id, due |-> clock + DEBOUNCE_WAIT, args |-> args]}
          /\ timeout' = id
          /\ IF callNow
             THEN /\ funcCalls' = funcCalls + 1
                  /\ lastFunc' = [time |-> clock, args |-> args, idle |-> 0, latest |-> args]
                  /\ renderArg' = convertRows(csvRows)
                  /\ \E outcomes \in [Range(ChartIds) -> Outcomes] :
                       LET r == renderPlots(containers, outcomes)
                       IN /\ containers' = r.containers
                          /\ lastRender' = r.lastRender
                          /\ uncaught' = r.uncaught
             ELSE UNCHANGED <<funcCalls, lastFunc, renderVars, renderArg>>
    /\ UNCHANGED <<csvRows, clock, loadState, resizeListener, bodyFatal,
                   histVars, ridgeVars, stackVars, sankeyVars, brushVars, scatterVars, studentVars>>

\* later(): a pending callback runs, at its due time or after it
TimerFires ==
    /\ \E t \in timers :
         /\ clock >= t.due
         /\ timers' = timers \ {t}
         /\ timeout' = "null"
         /\ IF laterCallsFunc
            THEN /\ funcCalls' = funcCalls + 1
                 /\ lastFunc' = [time |-> clock, args |-> t.args,
                                 idle |-> clock - lastResizeTime, latest |-> resizeCount]
                 /\ renderArg' = convertRows(csvRows)
                 /\ \E outcomes \in [Range(ChartIds) -> Outcomes] :
                      LET r == renderPlots(containers, outcomes)
                      IN /\ containers' = r.containers
                         /\ lastRender' = r.lastRender
                         /\ uncaught' = r.uncaught
            ELSE UNCHANGED <<funcCalls, lastFunc, renderVars, renderArg>>
    /\ UNCHANGED <<csvRows, clock, resizeCount, lastResizeTime, bursts,
                   loadState, resizeListener, bodyFatal,
                   histVars, ridgeVars, stackVars, sankeyVars, brushVars, scatterVars, studentVars>>

\* time passes; the clock starts when the promise of d3.csv settles, and
\* is followed up to MaxClock and further while a timer waits for its time
Tick ==
    /\ loadState # "fetching"
    /\ \/ clock + ClockStep <= MaxClock
       \/ \E t \in timers \cup resizeTimers : clock < t.due
    /\ clock' = clock + ClockStep
    /\ UNCHANGED <<timeout, timers, resizeCount, lastResizeTime, bursts, funcCalls,
                   lastFunc, loadState, resizeListener, bodyFatal, renderVars,
                   loadVars,
                   histVars, ridgeVars, stackVars, sankeyVars, brushVars, scatterVars, studentVars>>

AppNext == csvLoaded \/ csvFailed \/ Resize \/ TimerFires \/ Tick

AppSpec == AppInit /\ [][AppNext]_vars

-----------------------------------------------------------------------------
(* Properties of debounce and renderPlots *)

\* C17: the debounced function runs func only when at least wait
\* milliseconds have passed since the last call, with the arguments of that
\* last call, and once per burst: a burst is a run of calls in which every
\* call finds the timer of the call before it still pending, so the bursts
\* without an invocation yet are the ones whose timer is pending.
DebounceTrailing ==
    /\ funcCalls > 0
       => /\ lastFunc.idle >= DEBOUNCE_WAIT
          /\ lastFunc.args = lastFunc.latest
    /\ Cardinality(timers) <= 1
    /\ funcCalls = bursts - Cardinality(timers)

\* a burst of two resize events less than wait apart, answered by one
\* invocation with the second event
DebounceTrailingWitness ==
    /\ bursts = 1
    /\ resizeCount = 2
    /\ funcCalls = 1
    /\ lastFunc.args = 2
    /\ timers = {}

RenderPlotsReturned == \E id \in Range(ChartIds) : lastRender[id] # "none"

\* C18: when a chart function throws inside renderPlots, its container holds
\* the error message and no svg, no exception leaves renderPlots, and the
\* blocks of all three charts have run: a chart whose function drew holds
\* its svg.
RenderErrorIsolation ==
    loadState = "loaded"
    => /\ ~uncaught
       /\ \A id \in Range(ChartIds) :
             /\ lastRender[id] \in Outcomes
             /\ lastRender[id] = "threw"
                => containers[id].error /\ containers[id].svgs = 0
             /\ lastRender[id] = "ok" => containers[id].svgs >= 1

\* the first chart threw, the other two drew
RenderErrorIsolationWitness ==
    /\ loadState = "loaded"
    /\ lastRender["#topLeftChart"] = "threw"
    /\ containers["#topLeftChart"].error
    /\ lastRender["#bottomLeftChart"] = "ok"
    /\ lastRender["#rightChart"] = "ok"
    /\ containers["#bottomLeftChart"].svgs = 1
    /\ containers["#rightChart"].svgs = 1

\* a record after the conversions: numbers, a boolean, a Type_2 that is set
Coerced(d) ==
    /\ d.Total.type = "number"
    /\ d.Height_m.type = "number"
    /\ d.isLegendary.type = "boolean"
    /\ d.Type_2.type = "string"
    /\ d.Type_2.value \notin {"", " "}

\* C23: renderPlots is called only after pokemon.csv has loaded, with every
\* record converted; the resize listener is registered only after the
\* initial render; after a failed load renderPlots has not been called, no
\* resize listener is registered and the fatal error message is shown.
LoadThenRender ==
    /\ RenderPlotsReturned
       => /\ loadState = "loaded"
          /\ Len(renderArg) = Len(csvRows)
          /\ \A i \in 1..Len(renderArg) :
                /\ Coerced(renderArg[i])
                /\ renderArg[i].Name = csvRows[i].Name
    /\ resizeListener => (loadState = "loaded" /\ RenderPlotsReturned)
    /\ funcCalls > 0 => loadState = "loaded"
    /\ loadState = "failed"
       => /\ ~RenderPlotsReturned
          /\ renderArg = <<>>
          /\ ~resizeListener
          /\ timers = {}
          /\ bodyFatal

\* a re-render after a resize, from a file with a blank Type_2
LoadThenRenderWitness ==
    /\ loadState = "loaded"
    /\ resizeListener
    /\ funcCalls = 1
    /\ Len(renderArg) = 2
    /\ csvRows[1].Type_2.value = " "
    /\ renderArg[1].Type_2.value = "None"

\* C26: whatever the outcomes of the renderPlots calls so far, each of the
\* three chart containers holds at most one svg.
SingleSvgPerContainer ==
    \A id \in Range(ChartIds) : containers[id].svgs <= 1

\* a second re-render that drew all three charts over the earlier ones
SingleSvgPerContainerWitness ==
    /\ funcCalls = 2
    /\ \A id \in Range(ChartIds) :
          lastRender[id] = "ok" /\ containers[id].svgs = 1

\* C27: a chart that the last renderPlots call rendered successfully has no
\* "Chart Error" message of an earlier failed render in its container.
ErrorClearedBySuccess ==
    \A id \in Range(ChartIds) :
       lastRender[id] = "ok" => ~containers[id].error

-----------------------------------------------------------------------------
(* createParallelChart: the axis brushes
   (Homework3/fwemguangzhu/pokemon-dashboard.js) *)

MaxBrushRecords == 2

\* height = 300 - margin.top - margin.bottom
CHART_HEIGHT == 200

\* the model keeps the first two of the six dimensions
dimensions == <<"HP", "Attack">>

\* event.selection of a brush without selection
Null == <<>>

SAMPLE_LIMIT == 200

\* data.length > 200 ? data.filter((d, i) => i % 3 === 0) : data
sampleData(recs) ==
    IF Len(recs) > SAMPLE_LIMIT
    THEN [k \in 1..((Len(recs) + 2) \div 3) |-> recs[3 * (k - 1) + 1]]
    ELSE recs

\* d3.extent(data, d => +d[dim]); NaN stands for the undefined bounds of an
\* extent without values
extentOf(recs, dim) ==
    LET values == {recs[i][dim] : i \in 1..Len(recs)} \ {NaN}
    IN IF values = {} THEN <<NaN, NaN>>
       ELSE <<CHOOSE v \in values : \A w \in values : v <= w,
              CHOOSE v \in values : \A w \in values : v >= w>>

\* y[dim].invert(p) for the scale with domain extent and range [height, 0]:
\* the fraction lo + (hi - lo) * (height - p) / height
invert(recs, dim, p) ==
    LET e == extentOf(recs, dim)
    IN IF e[1] = NaN THEN <<NaN, 1>>
       ELSE <<e[1] * CHART_HEIGHT + (e[2] - e[1]) * (CHART_HEIGHT - p), CHART_HEIGHT>>

\* value >= bound and value <= bound for a fraction bound
GeRat(value, bound) ==
    value # NaN /\ bound[1] # NaN /\ value * bound[2] >= bound[1]
LeRat(value, bound) ==
    value # NaN /\ bound[1] # NaN /\ value * bound[2] <= bound[1]

\* variant of isBrushed with the bounds excluded
isBrushedInside(brushes, d) ==
    IF DOMAIN brushes = {} THEN FALSE
    ELSE \A dim \in DOMAIN brushes :
            /\ GeRat(d[dim], brushes[dim][1]) /\ ~LeRat(d[dim], brushes[dim][1])
            /\ LeRat(d[dim], brushes[dim][2]) /\ ~GeRat(d[dim], brushes[dim][2])

isBrushed(brushes, d) ==
    IF DOMAIN brushes = {} THEN FALSE
    ELSE \A dim \in DOMAIN brushes :
            GeRat(d[dim], brushes[dim][1]) /\ LeRat(d[dim], brushes[dim][2])

\* the attributes highlightBrushedLines gives to the lines
highlightBrushedLines(brushes, recs) ==
    [i \in 1..Len(recs) |->
       IF isBrushed(brushes, recs[i])
       THEN [opacity |-> "0.8", width |-> 2]
       ELSE [opacity |-> "0.2", width |-> 1]]

\* the attributes of the lines when they are drawn and after a reset
defaultLines(recs) == [i \in 1..Len(recs) |-> [opacity |-> "0.5", width |-> 1]]

\* variant of resetActiveBrushes that keeps the entries
resetActiveBrushesKept(brushes) == brushes

\* activeBrushes = {}
resetActiveBrushes(brushes) == <<>>

\* activeBrushes[dim] = range
setBrush(brushes, dim, range) ==
    [k \in DOMAIN brushes \cup {dim} |-> IF k = dim THEN range ELSE brushes[k]]

\* delete activeBrushes[dim]
deleteBrush(brushes, dim) == [k \in DOMAIN brushes \ {dim} |-> brushes[k]]

StatValues == {10, 50}
BrushPixels == {0, 100, 200}

\* [y0, y1] of a brush event: a span of the axis, top first
BrushSelections == {<<y0, y1>> \in BrushPixels \X BrushPixels : y0 <= y1}

BrushRecords == [HP : StatValues, Attack : {10, 90}]

BrushInit ==
    /\ HistIdle
    /\ RidgeIdle
    /\ StackIdle
    /\ SankeyIdle
    /\ AppIdle
    /\ ScatterIdle
    /\ StudentIdle
    /\ pokemonData = <<>>
    /\ brushData \in SeqsUpTo(BrushRecords, MaxBrushRecords)
    /\ activeBrushes = <<>>
    /\ brushSelection = [k \in Range(dimensions) |-> Null]
    /\ lineStyle = defaultLines(sampleData(brushData))
    /\ lastBrushEvent = [type |-> "none", dim |-> "none"]
    /\ clearedBrushes = 0

\* the "brush" listener; d3 dispatches "brush" while the pointer moves the
\* selection, so event.selection is never null here
brushed ==
    /\ \E dim \in Range(dimensions), selection \in BrushSelections :
         LET y0 == selection[1]
             y1 == selection[2]
             brushes == setBrush(activeBrushes, dim,
                                 <<invert(brushData, dim, y1), invert(brushData, dim, y0)>>)
         IN /\ brushSelection' = [brushSelection EXCEPT ![dim] = selection]
            /\ activeBrushes' = brushes
            /\ lineStyle' = highlightBrushedLines(brushes, sampleData(brushData))
            /\ lastBrushEvent' = [type |-> "brush", dim |-> dim]
    /\ UNCHANGED <<brushData, clearedBrushes,
                   histVars, ridgeVars, stackVars, sankeyVars, appVars, scatterVars, studentVars>>

\* the "end" listener; the gesture ends with the selection of the brush, or
\* with none after a click or when the selection is empty
brushEnded ==
    /\ \E dim \in Range(dimensions), clicked \in BOOLEAN :
         LET current == brushSelection[dim]
             selection == IF clicked \/ current = Null THEN Null
                          ELSE IF current[1] = current[2] THEN Null
                          ELSE current
             brushes == IF selection = Null THEN deleteBrush(activeBrushes, dim)
                        ELSE activeBrushes
         IN /\ brushSelection' = [brushSelection EXCEPT ![dim] = selection]
            /\ activeBrushes' = brushes
            /\ lineStyle' = highlightBrushedLines(brushes, sampleData(brushData))
            /\ lastBrushEvent' = [type |-> "end", dim |-> dim]
    /\ UNCHANGED <<brushData, clearedBrushes,
                   histVars, ridgeVars, stackVars, sankeyVars, appVars, scatterVars, studentVars>>

\* the click listener of the reset button; the brush that clears the
\* selections is a new one without listeners, so no "end" is dispatched
resetAllBrushes ==
    /\ brushSelection' = [k \in Range(dimensions) |-> Null]
    /\ activeBrushes' = resetActiveBrushes(activeBrushes)
    /\ lineStyle' = defaultLines(sampleData(brushData))
    /\ lastBrushEvent' = [type |-> "reset", dim |-> "none"]
    /\ clearedBrushes' = Cardinality(DOMAIN activeBrushes)
    /\ UNCHANGED <<brushData, histVars, ridgeVars, stackVars, sankeyVars, appVars, scatterVars, studentVars>>

BrushNext == brushed \/ brushEnded \/ resetAllBrushes

BrushSpec == BrushInit /\ [][BrushNext]_vars

-----------------------------------------------------------------------------
(* Properties of the brushes *)

\* the range of values that a span of pixels of an axis covers, both ends
\* included
Covers(dim, selection, value) ==
    /\ GeRat(value, invert(brushData, dim, selection[2]))
    /\ LeRat(value, invert(brushData, dim, selection[1]))

Highlighted(i) == lineStyle[i] = [opacity |-> "0.8", width |-> 2]
Dimmed(i) == lineStyle[i] = [opacity |-> "0.2", width |-> 1]
DefaultLine(i) == lineStyle[i] = [opacity |-> "0.5", width |-> 1]

\* C19: after a brush or end event the active brushes are the dimensions
\* that hold a selection, and a line is highlighted (opacity 0.8, width 2)
\* exactly when there is an active brush and on every brushed dimension the
\* value of its record is inside the brushed range, ends included; every
\* other line is dimmed (opacity 0.2, width 1).
BrushHighlight ==
    lastBrushEvent.type \in {"brush", "end"}
    => /\ DOMAIN activeBrushes = {dim \in Range(dimensions) : brushSelection[dim] # Null}
       /\ \A i \in 1..Len(lineStyle) :
             IF /\ \E dim \in Range(dimensions) : brushSelection[dim] # Null
                /\ \A dim \in Range(dimensions) :
                      brushSelection[dim] # Null
                      => Covers(dim, brushSelection[dim], brushData[i][dim])
             THEN Highlighted(i)
             ELSE Dimmed(i)

\* two brushes; one line lies on the boundary of both and is highlighted,
\* the other fails one of them and is dimmed
BrushHighlightWitness ==
    /\ lastBrushEvent.type = "brush"
    /\ Len(brushData) = 2
    /\ brushData[1] = [HP |-> 50, Attack |-> 90]
    /\ brushData[2] = [HP |-> 10, Attack |-> 10]
    /\ brushSelection["HP"] = <<0, 100>>
    /\ brushSelection["Attack"] = <<0, 100>>
    /\ Highlighted(1)
    /\ Dimmed(2)

\* C20: a reset leaves no active brush, no selection on any dimension and
\* every line with the default appearance (opacity 0.5, width 1), and the
\* brush event that follows a reset is evaluated against that one brush.
BrushReset ==
    [][/\ lastBrushEvent'.type = "reset"
          => /\ DOMAIN activeBrushes' = {}
             /\ \A dim \in Range(dimensions) : brushSelection'[dim] = Null
             /\ \A i \in 1..Len(lineStyle') :
                   lineStyle'[i] = [opacity |-> "0.5", width |-> 1]
       /\ (lastBrushEvent.type = "reset" /\ lastBrushEvent'.type = "brush")
          => /\ DOMAIN activeBrushes' = {lastBrushEvent'.dim}
             /\ \A i \in 1..Len(lineStyle') :
                   lineStyle'[i] =
                     IF Covers(lastBrushEvent'.dim,
                               brushSelection'[lastBrushEvent'.dim],
                               brushData[i][lastBrushEvent'.dim])
                     THEN [opacity |-> "0.8", width |-> 2]
                     ELSE [opacity |-> "0.2", width |-> 1]]_vars

\* a reset that dropped two active brushes, with lines to restyle
BrushResetWitness ==
    /\ lastBrushEvent.type = "reset"
    /\ clearedBrushes = 2
    /\ Len(lineStyle) = 2
    /\ \A i \in 1..Len(lineStyle) : DefaultLine(i)

-----------------------------------------------------------------------------
(* createScatterPlot (pokemon-dashboard.js): the type dropdown and         *)
(* updatePlot.  A record keeps the fields the filter and the join read.   *)

MaxScatterRecords == 2

\* the Name of the i-th record of the file
ScatterNames == <<"A", "B", "C", "D">>

ALL == "all"

\* [d.Type_1, d.Type_2].filter(Boolean)
typesOfRecord(d) == {t \in {d.Type_1, d.Type_2} : t # ""}

\* [...new Set(data.flatMap(...))].sort(), as the set of option values
allTypesOf(recs) == UNION {typesOfRecord(recs[i]) : i \in 1..Len(recs)}

\* the option values of the dropdown: "all", then one per type
optionValues(recs) == {ALL} \cup allTypesOf(recs)

\* Array.from(this.selectedOptions).map(value).filter(value !== "all")
selectedOptionsOf(sel) == sel \ {ALL}

matchesSelectionType1Only(d, selectedOptions) ==
    d.Type_1 \in selectedOptions

\* selectedOptions.includes(d.Type_1) ||
\*     (d.Type_2 && selectedOptions.includes(d.Type_2))
matchesSelection(d, selectedOptions) ==
    \/ d.Type_1 \in selectedOptions
    \/ (d.Type_2 # "" /\ d.Type_2 \in selectedOptions)

\* data.filter(d => ...), keeping the order of data
filteredDataOf(recs, selectedOptions) ==
    LET Keep(i) == matchesSelection(recs[i], selectedOptions)
        RECURSIVE Go(_)
        Go(i) == IF i > Len(recs) THEN <<>>
                 ELSE (IF Keep(i) THEN <<recs[i]>> ELSE <<>>) \o Go(i + 1)
    IN Go(1)

\* the key function of the join: d => d.Name
keyOf(d) == d.Name

\* d3's keyed join, selectAll(".point").data(plotData, key): the first node
\* of a key is the node of that key; the first datum of a key takes it
nodeByKeyValue(pts, k) ==
    LET same == {p \in 1..Len(pts) : keyOf(pts[p].datum) = k}
    IN IF same = {} THEN 0 ELSE CHOOSE p \in same : \A q \in same : p <= q

\* the node that the i-th datum updates, 0 when the datum enters
updateNodeOf(pts, plotData, i) ==
    IF \E j \in 1..(i - 1) : keyOf(plotData[j]) = keyOf(plotData[i])
    THEN 0
    ELSE nodeByKeyValue(pts, keyOf(plotData[i]))

\* the node an entering datum is inserted before (enter._next), 0 = append
nextOfEnter(pts, plotData, i) ==
    LET later == {j \in (i + 1)..Len(plotData) :
                     updateNodeOf(pts, plotData, j) # 0}
    IN IF later = {} THEN 0
       ELSE updateNodeOf(pts, plotData,
                         CHOOSE j \in later : \A k \in later : j <= k)

\* the circles that enter before node p (p = 0: appended at the end)
enteringBefore(pts, plotData, p) ==
    LET RECURSIVE Go(_)
        Go(i) ==
          IF i > Len(plotData) THEN <<>>
          ELSE (IF /\ updateNodeOf(pts, plotData, i) = 0
                   /\ nextOfEnter(pts, plotData, i) = p
                THEN <<[datum |-> plotData[i], exiting |-> FALSE]>>
                ELSE <<>>) \o Go(i + 1)
    IN Go(1)

\* node p after the join: an updated node is bound to its new datum and its
\* transition replaces a pending exit; any other node starts to exit
joinedNode(pts, plotData, p) ==
    LET mine == {i \in 1..Len(plotData) : updateNodeOf(pts, plotData, i) = p}
    IN IF mine = {}
       THEN [pts[p] EXCEPT !.exiting = TRUE]
       ELSE [datum |-> plotData[CHOOSE i \in mine : TRUE], exiting |-> FALSE]

\* updatePlot(plotData): the .point nodes of pointsGroup afterwards
updatePlot(pts, plotData) ==
    LET RECURSIVE Go(_)
        Go(p) ==
          IF p > Len(pts) THEN enteringBefore(pts, plotData, 0)
          ELSE enteringBefore(pts, plotData, p)
               \o <<joinedNode(pts, plotData, p)>> \o Go(p + 1)
    IN Go(1)

\* the types of a record; Type_2 is "" when the file has none
ScatterTypings == [Type_1 : {"Fire", "Water"}, Type_2 : {"", "Fire", "Grass"}]

\* the files of at most MaxScatterRecords records, with distinct names
ScatterFiles ==
    UNION {{[i \in 1..n |-> [Name |-> ScatterNames[i],
                             Type_1 |-> ty[i].Type_1,
                             Type_2 |-> ty[i].Type_2]] :
              ty \in [1..n -> ScatterTypings]} : n \in 0..MaxScatterRecords}

\* createScatterPlot(): "All Types" is selected and updatePlot(data) has run
ScatterInit ==
    /\ HistIdle
    /\ RidgeIdle
    /\ StackIdle
    /\ SankeyIdle
    /\ AppIdle
    /\ BrushIdle
    /\ StudentIdle
    /\ pokemonData = <<>>
    /\ scatterData \in ScatterFiles
    /\ selected = {ALL}
    /\ points = updatePlot(<<>>, scatterData)
    /\ lastChange = {}
    /\ scatterPc = "drawn"

\* dropdown.on("change", ...): the user left the options of sel selected
dropdownChange ==
    \E sel \in SUBSET optionValues(scatterData) :
       /\ scatterPc # "idle"
       /\ sel # selected
       /\ lastChange' = sel
       /\ scatterPc' = "changed"
       /\ IF selectedOptionsOf(sel) = {} \/ ALL \in sel
          THEN /\ points' = updatePlot(points, scatterData)
               /\ selected' = sel \cup {ALL}
          ELSE /\ points' = updatePlot(points,
                              filteredDataOf(scatterData, selectedOptionsOf(sel)))
               /\ selected' = sel \ {ALL}
       /\ UNCHANGED <<scatterData, histVars, ridgeVars, stackVars, sankeyVars,
                      appVars, brushVars, studentVars>>

\* the exit transition of one circle ends: transition.remove()
exitTransitionEnds ==
    \E p \in 1..Len(points) :
       /\ points[p].exiting
       /\ points' = [q \in 1..(Len(points) - 1) |->
                        IF q < p THEN points[q] ELSE points[q + 1]]
       /\ UNCHANGED <<scatterData, selected, lastChange, scatterPc,
                      histVars, ridgeVars, stackVars, sankeyVars,
                      appVars, brushVars, studentVars>>

ScatterNext == dropdownChange \/ exitTransitionEnds

ScatterSpec == ScatterInit /\ [][ScatterNext]_vars

-----------------------------------------------------------------------------
(* Properties of the scatter filter *)

\* the records bound to the circles that are not on their way out
Plotted == {points[p].datum : p \in {q \in 1..Len(points) : ~points[q].exiting}}

PlottedCount == Cardinality({q \in 1..Len(points) : ~points[q].exiting})

SpecificTypes(sel) == sel \ {ALL}

OfSelectedType(d, sel) ==
    \/ d.Type_1 \in SpecificTypes(sel)
    \/ (d.Type_2 # "" /\ d.Type_2 \in SpecificTypes(sel))

\* C21: after a dropdown change with a specific type selected and "All
\* Types" not selected, the plotted records are exactly the records whose
\* Type_1 or non-empty Type_2 is a selected type; after a change with no
\* specific type or with "All Types" selected, every record is plotted.
ScatterTypeFilter ==
    scatterPc = "changed"
    => LET wanted ==
             IF SpecificTypes(lastChange) # {} /\ ALL \notin lastChange
             THEN {i \in 1..Len(scatterData) :
                      OfSelectedType(scatterData[i], lastChange)}
             ELSE 1..Len(scatterData)
       IN /\ Plotted = {scatterData[i] : i \in wanted}
          /\ PlottedCount = Cardinality(wanted)

\* a change to one specific type that keeps a record for its Type_2 only
\* and drops another record
ScatterTypeFilterWitness ==
    /\ scatterPc = "changed"
    /\ ALL \notin lastChange
    /\ SpecificTypes(lastChange) # {}
    /\ \E i \in 1..Len(scatterData) :
          /\ scatterData[i].Type_1 \notin lastChange
          /\ scatterData[i].Type_2 \in lastChange
          /\ scatterData[i] \in Plotted
    /\ \E i \in 1..Len(scatterData) : scatterData[i] \notin Plotted

-----------------------------------------------------------------------------
(* The student dashboard (part_001): createChordDiagram and handleResize *)

MaxStudents == 2

jobCategories == <<"teacher", "health", "services", "at_home", "other">>

\* Array.prototype.indexOf: the 0-based index of the first match, or -1
indexOf(arr, v) ==
    LET at == {i \in 1..Len(arr) : arr[i] = v}
    IN IF at = {} THEN -1 ELSE (CHOOSE i \in at : \A j \in at : i <= j) - 1

\* Array(n).fill(0).map(() => Array(n).fill(0)); rows and columns from 0
zeroMatrix == [i \in 0..(Len(jobCategories) - 1) |->
                 [j \in 0..(Len(jobCategories) - 1) |-> 0]]

incrementCellSwapped(m, mjobIndex, fjobIndex) ==
    [m EXCEPT ![fjobIndex][mjobIndex] = @ + 1]

\* matrix[mjobIndex][fjobIndex]++
incrementCell(m, mjobIndex, fjobIndex) ==
    [m EXCEPT ![mjobIndex][fjobIndex] = @ + 1]

\* the callback of data.forEach
countPair(m, d) ==
    LET mjobIndex == indexOf(jobCategories, d.Mjob)
        fjobIndex == indexOf(jobCategories, d.Fjob)
    IN IF mjobIndex # -1 /\ fjobIndex # -1
       THEN incrementCell(m, mjobIndex, fjobIndex)
       ELSE m

\* the matrix createChordDiagram(data) hands to d3.chord()
RECURSIVE chordMatrixFrom(_, _, _)
chordMatrixFrom(m, recs, k) ==
    IF k > Len(recs) THEN m
    ELSE chordMatrixFrom(countPair(m, recs[k]), recs, k + 1)

chordMatrixOf(recs) == chordMatrixFrom(zeroMatrix, recs, 1)

\* the jobs of a record; "nurse" is none of the categories
StudentRecords == [Mjob : {"teacher", "other", "nurse"},
                   Fjob : {"teacher", "nurse"}]

RESIZE_WAIT == 250

\* the page after the load: the three charts are drawn from df and the
\* debounced handleResize listens for resize events
StudentInit ==
    /\ HistIdle
    /\ RidgeIdle
    /\ StackIdle
    /\ SankeyIdle
    /\ AppIdle
    /\ BrushIdle
    /\ ScatterIdle
    /\ pokemonData = <<>>
    /\ df \in SeqsUpTo(StudentRecords, MaxStudents)
    /\ chordMatrix = chordMatrixOf(df)
    /\ studentPc = "drawn"
    /\ resizeTimeout = "undefined"
    /\ resizeTimers = {}
    /\ resizeEvents = 0
    /\ redraws = 0
    /\ lastRedraw = <<>>

\* a resize event: executedFunction(event) of debounce(..., 250)
handleResize ==
    /\ studentPc # "idle"
    /\ resizeEvents < MaxResizeEvents
    /\ LET id == resizeEvents + 1
       IN /\ resizeEvents' = id
          /\ resizeTimers' = clearTimeout(resizeTimers, resizeTimeout)
                               \cup {[id |-> id, due |-> clock + RESIZE_WAIT,
                                      args |-> <<id>>]}
          /\ resizeTimeout' = id
    /\ studentPc' = "resized"
    /\ UNCHANGED <<df, chordMatrix, redraws, lastRedraw,
                   histVars, ridgeVars, stackVars, sankeyVars, appVars,
                   brushVars, scatterVars>>

\* later(): clearTimeout(timeout), then the three charts are created from df
resizeTimerFires ==
    \E t \in resizeTimers :
       /\ clock >= t.due
       /\ resizeTimers' = clearTimeout(resizeTimers \ {t}, resizeTimeout)
       /\ chordMatrix' = chordMatrixOf(df)
       /\ redraws' = redraws + 1
       /\ lastRedraw' = [time |-> clock, latest |-> resizeEvents, df |-> df]
       /\ studentPc' = "redrawn"
       /\ UNCHANGED <<df, resizeTimeout, resizeEvents,
                      histVars, ridgeVars, stackVars, sankeyVars, appVars,
                      brushVars, scatterVars>>

StudentNext == handleResize \/ resizeTimerFires \/ Tick

StudentSpec == StudentInit /\ [][StudentNext]_vars

-----------------------------------------------------------------------------
(* Properties of the chord matrix *)

InCategories(job) == \E i \in 1..Len(jobCategories) : jobCategories[i] = job

PairCount(mjob, fjob) ==
    Cardinality({k \in 1..Len(df) : df[k].Mjob = mjob /\ df[k].Fjob = fjob})

CellSum ==
    LET RECURSIVE Go(_)
        Go(c) == IF c >= Len(jobCategories) * Len(jobCategories) THEN 0
                 ELSE chordMatrix[c \div Len(jobCategories)]
                                 [c % Len(jobCategories)] + Go(c + 1)
    IN Go(0)

\* C22: cell [i][j] of the chord matrix is the number of records whose Mjob
\* is category i and whose Fjob is category j, and the cells add up to the
\* number of records with both jobs among the five categories.
ChordMatrixCounts ==
    studentPc # "idle"
    => /\ \A i, j \in 1..Len(jobCategories) :
             chordMatrix[i - 1][j - 1]
               = PairCount(jobCategories[i], jobCategories[j])
       /\ CellSum = Cardinality({k \in 1..Len(df) :
                                   /\ InCategories(df[k].Mjob)
                                   /\ InCategories(df[k].Fjob)})

\* a redraw of a file with a counted pair off the diagonal and a record
\* that has a job outside the categories
ChordMatrixCountsWitness ==
    /\ studentPc = "redrawn"
    /\ chordMatrix[4][0] = 1
    /\ \E k \in 1..Len(df) : ~InCategories(df[k].Fjob)
    /\ CellSum < Len(df)

-----------------------------------------------------------------------------
(* The two pages with a debounced resize listener: the Pokemon dashboard  *)
(* (main.js) and the student dashboard (part_001)                          *)

DebounceInit == AppInit \/ StudentInit

DebounceNext == AppNext \/ StudentNext

DebounceSpec == DebounceInit /\ [][DebounceNext]_vars

\* the pages with a file of one record or none: the timers do not depend
\* on the records
DebounceFairInit ==
    \/ (AppInit /\ Len(csvRows) <= 1)
    \/ (StudentInit /\ Len(df) <= 1)

\* timers run when their time has come, and time passes
DebounceFairSpec ==
    /\ DebounceFairInit
    /\ [][DebounceNext]_vars
    /\ WF_timers(TimerFires)
    /\ WF_resizeTimers(resizeTimerFires)
    /\ WF_clock(Tick)

-----------------------------------------------------------------------------
(* Properties of the resize handling *)

\* C24: each debounced function has at most one timer pending, the one its
\* last call scheduled; so no two renders are scheduled at once and the
\* function has run at most once for every burst of calls.
DebounceTimerInvariant ==
    /\ Cardinality(timers) <= 1
    /\ \A t \in timers : t.id = timeout /\ t.args = resizeCount
    /\ funcCalls + Cardinality(timers) = bursts
    /\ Cardinality(resizeTimers) <= 1
    /\ \A t \in resizeTimers : t.id = resizeTimeout /\ t.args = <<resizeEvents>>
    /\ redraws + Cardinality(resizeTimers) <= resizeEvents

\* a second resize event that arrived while the timer of the first was
\* pending: one timer is left
DebounceTimerInvariantWitness ==
    /\ resizeCount = 2
    /\ lastResizeTime > 0
    /\ bursts = 1
    /\ funcCalls = 0
    /\ Cardinality(timers) = 1

\* the resize events are over and the last render came after the last of
\* them, from the loaded records
ResizeSettled ==
    /\ timers = {}
    /\ resizeTimers = {}
    /\ resizeCount > 0
       => /\ funcCalls > 0
          /\ lastFunc.latest = resizeCount
          /\ lastFunc.time >= lastResizeTime + DEBOUNCE_WAIT
          /\ renderArg = convertRows(csvRows)
          /\ \A id \in Range(ChartIds) : lastRender[id] # "none"
    /\ resizeEvents > 0
       => /\ redraws > 0
          /\ lastRedraw.latest = resizeEvents
          /\ lastRedraw.df = df
          /\ chordMatrix = chordMatrixOf(df)

\* C25: when the resize events after the load have stopped and the pending
\* timers fire, a full re-render from the loaded data has run after the
\* last resize event, and nothing is left pending.
ResizeLiveness == <>[]ResizeSettled

\* a re-render that followed the last resize event
ResizeLivenessWitness ==
    /\ resizeCount = MaxResizeEvents
    /\ timers = {}
    /\ funcCalls > 0
    /\ lastFunc.latest = resizeCount

====
